---- MODULE Spec2Model ----
(***************************************************************************)
(* Model of the background-mutation coordinator of mhr_roulette_bot:       *)
(* the settings executors (members, range, exclude, target, obliterate,    *)
(* info), generate with its store, and the statistics query, together with *)
(* the shared Config mutex, the connection mutex, the per-call status      *)
(* mutex/condvar pair and the configuration file written by sync_all.      *)
(***************************************************************************)
EXTENDS Integers, Sequences, FiniteSets, TLC

\* ------------------------------------------------------------------------
\* Bounds of the model
\* ------------------------------------------------------------------------

\* Number of commands started in one behaviour.
MaxStarted == 2

\* Interaction handlers that can run at the same time (call slots).
Calls == {"c1", "c2"}

\* ------------------------------------------------------------------------
\* Program data
\* ------------------------------------------------------------------------

Choices == {"quest", "monster", "weapon"}

Options == {"set", "add", "remove"}

JobStatus == {"Pending", "ExitSuccess", "ExitFailure"}

\* Weapon keys (strum snake_case of the Weapon enum).
WeaponKeys ==
    {"great_sword", "long_sword", "sword_and_shield", "dual_blades", "lance",
     "gunlance", "hammer", "hunting_horn", "switch_axe", "charge_blade",
     "insect_glaive", "light_bowgun", "heavy_bowgun", "bow", "tackle_only",
     "counter_only", "melee_attack_only", "skills_only", "palamute_only",
     "bom_only", "insect_only"}

\* Monster keys accepted by Monster::from_str (strum snake_case); a
\* representative part of the enum.
MonsterKeys == {"great_izuchi", "great_baggi", "kulu_ya_ku", "arzuros"}

\* Japanese display names returned by Monster::ja for the same variants.
MonsterJa == {"オサイズチ", "ドスバギィ", "クルルヤック", "アオアシラ"}

\* Number of quest ranks in the quest table.
QuestRanks == 9

\* Number of quests of each rank in the quest table.
QuestsLen(rank) ==
    CASE rank = 0 -> 10
      [] rank \in {1, 2, 3} -> 0
      [] rank = 4 -> 14
      [] rank = 5 -> 14
      [] rank = 6 -> 13
      [] rank = 7 -> 15
      [] rank = 8 -> 27
      [] OTHER -> 0

\* ------------------------------------------------------------------------
\* Threads and locks
\* ------------------------------------------------------------------------

\* The caller thread (the interaction handler) and the spawned worker of a call.
Caller(c) == <<c, "caller">>
Worker(c) == <<c, "worker">>

\* Holder value of a mutex nobody holds.
Free == <<"-", "-">>

\* Mutex::try_lock without the check that the mutex is free.
TryLockUnchecked(holder, poisoned) == TRUE

\* Mutex::try_lock returns Ok only when the mutex is free and not poisoned
\* (Err(WouldBlock) when held, Err(Poisoned) after a holder panicked).
TryLockOk(holder, poisoned) == holder = Free /\ ~poisoned

\* Mutex::lock taken without waiting for the holder to release.
LockUnchecked(holder) == TRUE

\* Mutex::lock returns only once the mutex is free (it blocks while it is held).
LockReturns(holder) == holder = Free

\* ------------------------------------------------------------------------
\* Argument validation and parsing (SmartCast)
\* ------------------------------------------------------------------------

Digits == {"0", "1", "2", "3", "4", "5", "6", "7", "8", "9"}

DigitVal(d) ==
    CASE d = "0" -> 0 [] d = "1" -> 1 [] d = "2" -> 2 [] d = "3" -> 3
      [] d = "4" -> 4 [] d = "5" -> 5 [] d = "6" -> 6 [] d = "7" -> 7
      [] d = "8" -> 8 [] d = "9" -> 9

\* A quest token is a sequence of characters.  QUEST_ID_REGEX
\* "([1-9])-([0-9])+" matches at position i of the token.
MatchAt(tok, i) ==
    /\ i + 2 <= Len(tok)
    /\ tok[i] \in Digits \ {"0"}
    /\ tok[i + 1] = "-"
    /\ tok[i + 2] \in Digits

\* Regex::is_match is unanchored: a match anywhere in the token counts.
IsMatch(tok) == \E i \in 1..Len(tok) : MatchAt(tok, i)

\* Start of the leftmost match.
MatchStart(tok) == CHOOSE i \in 1..Len(tok) : MatchAt(tok, i) /\ \A j \in 1..(i - 1) : ~MatchAt(tok, j)

\* End of the greedy digit run of the match that starts at i.
MatchEnd(tok, i) ==
    CHOOSE e \in (i + 2)..Len(tok) :
        /\ \A k \in (i + 2)..e : tok[k] \in Digits
        /\ (e = Len(tok) \/ tok[e + 1] \notin Digits)

\* regex_captures: group 1 is the rank digit; the repeated group 2 keeps
\* only its last repetition, the last digit of the index.
ParseQuestID(tok) ==
    LET i == MatchStart(tok)
    IN  <<DigitVal(tok[i]), DigitVal(tok[MatchEnd(tok, i)])>>

\* The characters of the argument tokens used for the quest choice.
Chars(tok) ==
    CASE tok = "4-1" -> <<"4", "-", "1">>
      [] tok = "1-3" -> <<"1", "-", "3">>
      [] tok = "9-1" -> <<"9", "-", "1">>
      [] tok = "4-12" -> <<"4", "-", "1", "2">>
      [] tok = "x4-1" -> <<"x", "4", "-", "1">>
      [] OTHER -> <<"x">>

\* The predicate validate_for applies to every token of the choice.
ValidToken(choice, tok) ==
    CASE choice = "quest" -> IsMatch(Chars(tok))
      [] choice = "monster" -> tok \in MonsterJa
      [] choice = "weapon" -> tok \in WeaponKeys

\* validate_for: accepts when every token passes.
ValidateFor(choice, arg) == \A i \in 1..Len(arg) : ValidToken(choice, arg[i])

\* Validated::parse of one token succeeds.
ParseOk(choice, tok) ==
    CASE choice = "quest" -> IsMatch(Chars(tok))
      [] choice = "monster" -> tok \in MonsterKeys
      [] choice = "weapon" -> tok \in WeaponKeys

\* Validated::parse of one token.
ParseToken(choice, tok) ==
    IF choice = "quest" THEN ParseQuestID(Chars(tok)) ELSE tok

\* SmartCast::smart_cast: split, validate_for, parse, collect into a set.
\* err is "none" or the error the `?` returns.
SmartCast(choice, arg) ==
    IF ~ValidateFor(choice, arg)
    THEN [err |-> "InvalidArgument", set |-> {}]
    ELSE IF \E i \in 1..Len(arg) : ~ParseOk(choice, arg[i])
    THEN [err |-> "ParseFailed", set |-> {}]
    ELSE [err |-> "none", set |-> {ParseToken(choice, arg[i]) : i \in 1..Len(arg)}]

\* ------------------------------------------------------------------------
\* Config and the configuration file
\* ------------------------------------------------------------------------

Users == {"u1", "u2"}

\* Config { members, settings { range, target, excluded } }.
MakeConfig(members, lower, upper) ==
    [members  |-> members,
     range    |-> [lower |-> lower, upper |-> upper],
     target   |-> [ch \in Choices |-> {}],
     excluded |-> [ch \in Choices |-> {}]]

\* Length of the TOML text of a Config: the fixed keys plus one entry per
\* element of each collection.
DocLen(cfg) ==
    6 + Cardinality(cfg.members)
      + Cardinality(cfg.target["quest"]) + Cardinality(cfg.target["monster"])
      + Cardinality(cfg.target["weapon"])
      + Cardinality(cfg.excluded["quest"]) + Cardinality(cfg.excluded["monster"])
      + Cardinality(cfg.excluded["weapon"])

\* toml::to_string_pretty: the text of a Config and its length.
ToStringPretty(cfg) == [text |-> cfg, len |-> DocLen(cfg)]

\* The configuration file: the text last written at offset 0, the file
\* length, and whether bytes of an older, longer text remain behind it.
FileOf(cfg) == [doc |-> ToStringPretty(cfg), len |-> DocLen(cfg), tail |-> FALSE]

\* OpenOptions::new().write(true).truncate(true).open: the length becomes 0.
Truncate(f) == [doc |-> f.doc, len |-> 0, tail |-> FALSE]

\* write_all from offset 0 of a freshly opened descriptor: bytes beyond the
\* new text that another descriptor wrote after the truncation stay in place.
WriteAll(f, doc) ==
    [doc |-> doc,
     len |-> IF f.len > doc.len THEN f.len ELSE doc.len,
     tail |-> f.len > doc.len]

\* toml::from_str of the file, as done when CONFIG is first used: an empty
\* file or trailing bytes of another text do not parse as the Config.
FromStr(f) ==
    IF f.len = 0 \/ f.tail
    THEN [ok |-> FALSE, config |-> MakeConfig({}, 0, 0)]
    ELSE [ok |-> TRUE, config |-> f.doc.text]

\* ------------------------------------------------------------------------
\* Commands
\* ------------------------------------------------------------------------

NoCall ==
    [kind |-> "none", opt |-> "set", choice |-> "quest", arg |-> <<>>,
     users |-> {}, lower |-> 0, upper |-> 0]

Cmd(kind, opt, choice, arg, users, lower, upper) ==
    [kind |-> kind, opt |-> opt, choice |-> choice, arg |-> arg,
     users |-> users, lower |-> lower, upper |-> upper]

\* The commands an interaction can start: each executor, each option, each
\* choice, valid and invalid arguments, one-item and two-item arguments.
Commands ==
    {Cmd("range", "set", "quest", <<>>, {}, 4, 6),
     Cmd("range", "set", "quest", <<>>, {}, 6, 4),
     Cmd("obliterate", "set", "quest", <<>>, {}, 0, 0),
     Cmd("obliterate", "set", "weapon", <<>>, {}, 0, 0),
     Cmd("exclude", "add", "weapon", <<"bow", "lance">>, {}, 0, 0),
     Cmd("exclude", "remove", "weapon", <<"bow">>, {}, 0, 0),
     Cmd("exclude", "set", "weapon", <<"bow", "katana">>, {}, 0, 0),
     Cmd("exclude", "add", "monster", <<"オサイズチ">>, {}, 0, 0),
     Cmd("target", "set", "quest", <<"1-3">>, {}, 0, 0),
     Cmd("target", "add", "weapon", <<"bow", "lance">>, {}, 0, 0),
     Cmd("members", "add", "quest", <<>>, {"u2"}, 0, 0),
     Cmd("members", "set", "quest", <<>>, {"u1", "u2"}, 0, 0),
     Cmd("generate", "set", "quest", <<>>, {}, 0, 0),
     Cmd("query", "set", "weapon", <<"bow">>, {}, 0, 0),
     Cmd("query", "set", "weapon", <<"katana">>, {}, 0, 0),
     Cmd("info", "set", "quest", <<>>, {}, 0, 0)}

\* Executors whose worker polls the Config mutex / the connection mutex.
ConfigKinds == {"range", "obliterate", "exclude", "target", "members"}
ConnKinds == {"generate", "query"}

\* Executors whose caller joins the worker thread.
JoinKinds == {"members", "exclude", "target", "generate", "query"}

VARIABLES
    config,          \* the in-memory Config behind CONFIG
    file,            \* the configuration file
    configHolder,    \* thread holding the CONFIG mutex, or Free
    configPoisoned,  \* the CONFIG mutex is poisoned
    connHolder,      \* thread holding the CONN mutex, or Free
    connPoisoned,    \* the CONN mutex is poisoned
    call,            \* the command of each call
    cpc,             \* position of each caller
    wpc,             \* position of each worker
    status,          \* JobStatus of each call's pair
    statusHolder,    \* thread holding the mutex of each call's pair, or Free
    statusPoisoned,  \* the pair's mutex is poisoned
    expired,         \* the caller's timeout has elapsed
    result,          \* what the caller returned
    wres,            \* what the worker thread returned
    todo,            \* items the worker's loop has not yet processed
    notified,        \* number of notify_one calls of the worker
    persisted,       \* the caller's sync_all has written the file
    sawPartial,      \* a reader read Config while a body was half applied
    abandoned,       \* the caller timed out while its worker was still polling
    started,         \* number of commands started
    pin,             \* the input of a function applied on its own
    pout             \* what that function returned

\* The state of the handlers, the workers and what they share.
botVars ==
    <<config, file, configHolder, configPoisoned, connHolder, connPoisoned,
      call, cpc, wpc, status, statusHolder, statusPoisoned, expired, result,
      wres, todo, notified, persisted, sawPartial, abandoned, started>>

\* The state of a function applied on its own.
funVars == <<pin, pout>>

vars == <<botVars, funVars>>

\* CONFIG is loaded from the file the first time it is used.
InitConfigs == {MakeConfig({"u1"}, 4, 8)}

\* No handler and no worker is running.
Idle ==
    /\ config \in InitConfigs
    /\ file = FileOf(config)
    /\ configHolder = Free
    /\ configPoisoned = FALSE
    /\ connHolder = Free
    /\ connPoisoned = FALSE
    /\ call = [c \in Calls |-> NoCall]
    /\ cpc = [c \in Calls |-> "idle"]
    /\ wpc = [c \in Calls |-> "none"]
    /\ status = [c \in Calls |-> "Pending"]
    /\ statusHolder = [c \in Calls |-> Free]
    /\ statusPoisoned = [c \in Calls |-> FALSE]
    /\ expired = [c \in Calls |-> FALSE]
    /\ result = [c \in Calls |-> "none"]
    /\ wres = [c \in Calls |-> "none"]
    /\ todo = [c \in Calls |-> {}]
    /\ notified = [c \in Calls |-> 0]
    /\ persisted = [c \in Calls |-> FALSE]
    /\ sawPartial = FALSE
    /\ abandoned = [c \in Calls |-> FALSE]
    /\ started = 0

\* A function input: the operation, its tokens, bounds, fields and Config.
Input(op, toks, lower, upper, fields, cfg) ==
    [op |-> op, toks |-> toks, lower |-> lower, upper |-> upper,
     fields |-> fields, cfg |-> cfg]

\* A function result: phase 0 is "not applied", 2 is "returned".
Output(phase, ok, err, list, cmd, tag, cfg, msg) ==
    [phase |-> phase, ok |-> ok, err |-> err, list |-> list, cmd |-> cmd,
     tag |-> tag, cfg |-> cfg, msg |-> msg]

NoInput == Input("none", <<>>, 0, 0, <<>>, MakeConfig({"u1"}, 4, 8))

NoOutput == Output(0, FALSE, "", <<>>, NoCall, "", MakeConfig({"u1"}, 4, 8), <<>>)

Init ==
    /\ Idle
    /\ pin = NoInput
    /\ pout = NoOutput

\* ------------------------------------------------------------------------
\* Helpers of the executors
\* ------------------------------------------------------------------------

Kind(c) == call[c].kind

\* The list of Settings an exclude or target command works on.
ListOf(kind) == IF kind = "exclude" THEN "excluded" ELSE "target"

\* `lower as usize`, for the non-negative values submitted here.
AsUsize(v) == v

\* The assignment of the range with the bounds put in order first.
StoreRangeOrdered(cfg, lower, upper) ==
    [cfg EXCEPT !.range = IF lower <= upper
                          THEN [lower |-> lower, upper |-> upper]
                          ELSE [lower |-> upper, upper |-> lower]]

\* config.settings.range = Range { lower, upper } without the assignment.
StoreRangeSkipped(cfg, lower, upper) == cfg

\* config.settings.range = Range { lower: lower as usize, upper: upper as usize }
StoreRange(cfg, lower, upper) ==
    [cfg EXCEPT !.range = [lower |-> AsUsize(lower), upper |-> AsUsize(upper)]]

\* config.settings.<list>.<choice> = items
AssignList(cfg, list, choice, items) == [cfg EXCEPT ![list][choice] = items]

\* .clear() of one list of a choice
ClearList(cfg, list, choice) == [cfg EXCEPT ![list][choice] = {}]

\* The loop iteration that inserts whatever the option.
ApplyItemInsert(cfg, opt, list, choice, x) ==
    [cfg EXCEPT ![list][choice] = @ \cup {x}]

\* One iteration of the add (insert) or remove loop of exclude / target.
ApplyItem(cfg, opt, list, choice, x) ==
    IF opt = "add"
    THEN [cfg EXCEPT ![list][choice] = @ \cup {x}]
    ELSE [cfg EXCEPT ![list][choice] = @ \ {x}]

\* One iteration of the add (insert) or remove loop of members.
ApplyMember(cfg, opt, u) ==
    IF opt = "add"
    THEN [cfg EXCEPT !.members = @ \cup {u}]
    ELSE [cfg EXCEPT !.members = @ \ {u}]

\* obliterate clears target then excluded, except for weapon, where the
\* order is excluded then target.
FirstCleared(choice) == IF choice = "weapon" THEN "excluded" ELSE "target"
SecondCleared(choice) == IF choice = "weapon" THEN "target" ELSE "excluded"

\* The items the add / remove loop of the worker of c iterates over.
LoopItems(c) ==
    IF Kind(c) = "members" THEN call[c].users
    ELSE SmartCast(call[c].choice, call[c].arg).set

\* The worker of c holds the Config lock with its body partly applied.
MidBody(c) ==
    \/ wpc[c] = "ob_second"
    \/ wpc[c] = "loop" /\ todo[c] # {} /\ todo[c] # LoopItems(c)

\* Some body is partly applied.
Partial == \E c \in Calls : MidBody(c)

\* The caller's loop after wait_timeout_while without the test of the status.
\* A wait that tests the status only once it has waited.
AfterWaitUntested(st, timedOut) ==
    IF ~timedOut THEN "spin"
    ELSE IF st # "Pending" THEN "proceed"
    ELSE "TimeLimitExceeded"

AfterWaitIgnoringStatus(st, timedOut) == "proceed"

\* The caller's loop after wait_timeout_while: proceed when the status is no
\* longer Pending, bail out with TimeLimitExceeded when the wait timed out.
AfterWait(st, timedOut) ==
    IF st # "Pending" THEN "proceed"
    ELSE IF timedOut THEN "TimeLimitExceeded"
    ELSE "spin"

\* info about quest indexes QUESTS[id.0][id.1] for every target quest.
InfoIndexOk(cfg) ==
    \A id \in cfg.target["quest"] : id[1] < QuestRanks /\ id[2] < QuestsLen(id[1])

\* The handler of c ends with r.
CallerEnds(c, r) ==
    /\ cpc' = [cpc EXCEPT ![c] = "done"]
    /\ result' = [result EXCEPT ![c] = r]
    /\ abandoned' = [abandoned EXCEPT ![c] = (r = "TimeLimitExceeded" /\ wpc[c] = "poll")]

\* The handler of c panics inside a step that locked CONFIG: the guard is
\* dropped while panicking, which poisons CONFIG.
CallerPanicsInConfig(c) ==
    /\ CallerEnds(c, "panic")
    /\ configPoisoned' = TRUE
    /\ UNCHANGED <<configHolder, statusHolder, statusPoisoned>>

\* The caller of c returns r (or unwinds from a panic): its guards are
\* dropped, and a guard dropped while panicking poisons its mutex.
CallerReturn(c, r, panicking) ==
    /\ CallerEnds(c, r)
    /\ statusHolder' = [statusHolder EXCEPT ![c] = IF @ = Caller(c) THEN Free ELSE @]
    /\ statusPoisoned' =
         [statusPoisoned EXCEPT ![c] = @ \/ (panicking /\ statusHolder[c] = Caller(c))]
    /\ configHolder' = IF configHolder = Caller(c) THEN Free ELSE configHolder
    /\ configPoisoned' = (configPoisoned \/ (panicking /\ configHolder = Caller(c)))

\* The worker of c returns r: the guards it holds are dropped.
WorkerReturn(c, r, panicking) ==
    /\ wpc' = [wpc EXCEPT ![c] = "exit"]
    /\ wres' = [wres EXCEPT ![c] = r]
    /\ statusHolder' = [statusHolder EXCEPT ![c] = IF @ = Worker(c) THEN Free ELSE @]
    /\ statusPoisoned' =
         [statusPoisoned EXCEPT ![c] = @ \/ (panicking /\ statusHolder[c] = Worker(c))]
    /\ configHolder' = IF configHolder = Worker(c) THEN Free ELSE configHolder
    /\ configPoisoned' = (configPoisoned \/ (panicking /\ configHolder = Worker(c)))
    /\ connHolder' = IF connHolder = Worker(c) THEN Free ELSE connHolder
    /\ connPoisoned' = (connPoisoned \/ (panicking /\ connHolder = Worker(c)))

\* *status = st; cvar.notify_one();
SetAndNotify(c, st) ==
    /\ status' = [status EXCEPT ![c] = st]
    /\ notified' = [notified EXCEPT ![c] = @ + 1]

\* ------------------------------------------------------------------------
\* Workers
\* ------------------------------------------------------------------------

\* First position of the body, after conf.try_lock() returned Ok.
BodyStart(kind) ==
    CASE kind = "range" -> "rg_apply"
      [] kind = "obliterate" -> "ob_first"
      [] kind \in {"exclude", "target"} -> "cast"
      [] kind = "members" -> "mb_apply"
      [] kind = "generate" -> "st_lock_status"
      [] kind = "query" -> "q_body"

\* The polling loop that ends once the caller has returned.
WorkerPollsWhileAwaited(c) == wpc[c] = "poll" /\ result[c] = "none"

\* `loop { ... }` of the worker: nothing but a successful try_lock ends the
\* polling; the caller keeps no handle that could stop it.
WorkerPolls(c) == wpc[c] = "poll"

\* loop { if let Ok(ref mut config) = conf.try_lock() { ... } }
\* A failed try_lock leaves the state as it is.
WorkerTryLockConfig(c) ==
    /\ WorkerPolls(c)
    /\ Kind(c) \in ConfigKinds
    /\ TryLockOk(configHolder, configPoisoned)
    /\ configHolder' = Worker(c)
    /\ wpc' = [wpc EXCEPT ![c] = BodyStart(Kind(c))]
    /\ UNCHANGED <<config, file, configPoisoned, connHolder, connPoisoned, call,
                   cpc, status, statusHolder, statusPoisoned, expired, result,
                   wres, todo, notified, persisted, sawPartial, abandoned, started>>
    /\ UNCHANGED funVars

\* loop { if let Ok(ref mut conn) = conn.try_lock() { ... } }
WorkerTryLockConn(c) ==
    /\ WorkerPolls(c)
    /\ Kind(c) \in ConnKinds
    /\ TryLockOk(connHolder, connPoisoned)
    /\ connHolder' = Worker(c)
    /\ wpc' = [wpc EXCEPT ![c] = BodyStart(Kind(c))]
    /\ UNCHANGED <<config, file, configHolder, configPoisoned, connPoisoned, call,
                   cpc, status, statusHolder, statusPoisoned, expired, result,
                   wres, todo, notified, persisted, sawPartial, abandoned, started>>
    /\ UNCHANGED funVars

\* range: the assignment of config.settings.range.
RangeApply(c) ==
    /\ wpc[c] = "rg_apply"
    /\ config' = StoreRange(config, call[c].lower, call[c].upper)
    /\ wpc' = [wpc EXCEPT ![c] = "signal"]
    /\ UNCHANGED <<file, configHolder, configPoisoned, connHolder, connPoisoned,
                   call, cpc, status, statusHolder, statusPoisoned, expired, result,
                   wres, todo, notified, persisted, sawPartial, abandoned, started>>
    /\ UNCHANGED funVars

\* obliterate: the first clear().
ObliterateFirst(c) ==
    /\ wpc[c] = "ob_first"
    /\ config' = ClearList(config, FirstCleared(call[c].choice), call[c].choice)
    /\ wpc' = [wpc EXCEPT ![c] = "ob_second"]
    /\ UNCHANGED <<file, configHolder, configPoisoned, connHolder, connPoisoned,
                   call, cpc, status, statusHolder, statusPoisoned, expired, result,
                   wres, todo, notified, persisted, sawPartial, abandoned, started>>
    /\ UNCHANGED funVars

\* obliterate: the second clear().
ObliterateSecond(c) ==
    /\ wpc[c] = "ob_second"
    /\ config' = ClearList(config, SecondCleared(call[c].choice), call[c].choice)
    /\ wpc' = [wpc EXCEPT ![c] = "signal"]
    /\ UNCHANGED <<file, configHolder, configPoisoned, connHolder, connPoisoned,
                   call, cpc, status, statusHolder, statusPoisoned, expired, result,
                   wres, todo, notified, persisted, sawPartial, abandoned, started>>
    /\ UNCHANGED funVars

\* A worker that drops the guard and polls again when the body has run.
CastRetrying(c) ==
    /\ wpc[c] = "cast"
    /\ configHolder' = Free
    /\ wpc' = [wpc EXCEPT ![c] = "poll"]
    /\ UNCHANGED <<config, file, configPoisoned, connHolder, connPoisoned, call,
                   cpc, status, statusHolder, statusPoisoned, expired, result,
                   wres, todo, notified, persisted, sawPartial, abandoned, started>>
    /\ UNCHANGED funVars

\* exclude / target: arg.smart_cast()?, then the assignment (set) or the
\* start of the insert / remove loop.  On Err the `?` returns from the
\* worker closure: the Config guard is dropped, the status is not touched.
Cast(c) ==
    /\ wpc[c] = "cast"
    /\ LET r == SmartCast(call[c].choice, call[c].arg)
           list == ListOf(Kind(c))
       IN  IF r.err # "none"
           THEN /\ WorkerReturn(c, r.err, FALSE)
                /\ UNCHANGED <<config, todo>>
           ELSE /\ IF call[c].opt = "set"
                   THEN /\ config' = AssignList(config, list, call[c].choice, r.set)
                        /\ wpc' = [wpc EXCEPT ![c] = "signal"]
                        /\ todo' = todo
                   ELSE /\ config' = config
                        /\ wpc' = [wpc EXCEPT ![c] = IF r.set = {} THEN "signal" ELSE "loop"]
                        /\ todo' = [todo EXCEPT ![c] = r.set]
                /\ UNCHANGED <<wres, statusHolder, statusPoisoned, configHolder,
                               configPoisoned, connHolder, connPoisoned>>
    /\ UNCHANGED <<file, call, cpc, status, expired, result, notified, persisted,
                   sawPartial, abandoned, started>>
    /\ UNCHANGED funVars

\* members: config.members = users (set) or the start of the loop.
MembersApply(c) ==
    /\ wpc[c] = "mb_apply"
    /\ IF call[c].opt = "set"
       THEN /\ config' = [config EXCEPT !.members = call[c].users]
            /\ wpc' = [wpc EXCEPT ![c] = "mb_lock_status"]
            /\ todo' = todo
       ELSE /\ config' = config
            /\ wpc' = [wpc EXCEPT ![c] = IF call[c].users = {} THEN "mb_lock_status" ELSE "loop"]
            /\ todo' = [todo EXCEPT ![c] = call[c].users]
    /\ UNCHANGED <<file, configHolder, configPoisoned, connHolder, connPoisoned,
                   call, cpc, status, statusHolder, statusPoisoned, expired, result,
                   wres, notified, persisted, sawPartial, abandoned, started>>
    /\ UNCHANGED funVars

\* One iteration of an insert / remove loop (HashSet iteration order is
\* arbitrary).
Loop(c) ==
    /\ wpc[c] = "loop"
    /\ \E x \in todo[c] :
         /\ config' = IF Kind(c) = "members"
                      THEN ApplyMember(config, call[c].opt, x)
                      ELSE ApplyItem(config, call[c].opt, ListOf(Kind(c)), call[c].choice, x)
         /\ todo' = [todo EXCEPT ![c] = @ \ {x}]
         /\ wpc' = [wpc EXCEPT ![c] =
                      IF todo[c] # {x} THEN "loop"
                      ELSE IF Kind(c) = "members" THEN "mb_lock_status" ELSE "signal"]
    /\ UNCHANGED <<file, configHolder, configPoisoned, connHolder, connPoisoned,
                   call, cpc, status, statusHolder, statusPoisoned, expired, result,
                   wres, notified, persisted, sawPartial, abandoned, started>>
    /\ UNCHANGED funVars

\* range, obliterate, exclude, target, query: let mut status = lock.lock();
\* *status = ...; cvar.notify_one(); then the guards are dropped and the
\* thread ends.
Signal(c) ==
    /\ wpc[c] = "signal"
    /\ LockReturns(statusHolder[c])
    /\ LET ok == Kind(c) # "query" \/ wres[c] = "Ok"
       IN  /\ SetAndNotify(c, IF ok THEN "ExitSuccess" ELSE "ExitFailure")
           /\ WorkerReturn(c, IF Kind(c) = "query" THEN wres[c] ELSE "Ok", FALSE)
    /\ UNCHANGED <<config, file, call, cpc, expired, result, todo, persisted,
                   sawPartial, abandoned, started>>
    /\ UNCHANGED funVars

\* members: let mut status = lock.lock().unwrap(); (first acquisition)
MembersLockStatus(c) ==
    /\ wpc[c] = "mb_lock_status"
    /\ LockReturns(statusHolder[c])
    /\ statusHolder' = [statusHolder EXCEPT ![c] = Worker(c)]
    /\ wpc' = [wpc EXCEPT ![c] = "mb_lock_conn"]
    /\ UNCHANGED <<config, file, configHolder, configPoisoned, connHolder,
                   connPoisoned, call, cpc, status, statusPoisoned, expired, result,
                   wres, todo, notified, persisted, sawPartial, abandoned, started>>
    /\ UNCHANGED funVars

\* members: let conn = CONN.lock().unwrap();  A blocking acquisition; a
\* poisoned mutex makes unwrap panic.
MembersLockConn(c) ==
    /\ wpc[c] = "mb_lock_conn"
    /\ LockReturns(connHolder)
    /\ IF connPoisoned
       THEN /\ WorkerReturn(c, "panic", TRUE)
            /\ todo' = todo
       ELSE /\ connHolder' = Worker(c)
            /\ wpc' = [wpc EXCEPT ![c] = IF call[c].users = {} THEN "mb_relock" ELSE "mb_sql"]
            /\ todo' = [todo EXCEPT ![c] = call[c].users]
            /\ UNCHANGED <<wres, statusHolder, statusPoisoned, configHolder,
                           configPoisoned, connPoisoned>>
    /\ UNCHANGED <<config, file, call, cpc, status, expired, result, notified,
                   persisted, sawPartial, abandoned, started>>
    /\ UNCHANGED funVars

\* members: one conn.execute of the upsert loop; the statement succeeds or
\* fails.  On failure: ExitFailure, notify, return Err(FailedToStore).
MembersSql(c) ==
    /\ wpc[c] = "mb_sql"
    /\ \E u \in todo[c], sqlOk \in BOOLEAN :
         IF sqlOk
         THEN /\ todo' = [todo EXCEPT ![c] = @ \ {u}]
              /\ wpc' = [wpc EXCEPT ![c] = IF todo[c] = {u} THEN "mb_relock" ELSE "mb_sql"]
              /\ UNCHANGED <<wres, status, notified, statusHolder, statusPoisoned,
                             configHolder, configPoisoned, connHolder, connPoisoned>>
         ELSE /\ SetAndNotify(c, "ExitFailure")
              /\ WorkerReturn(c, "FailedToStore", FALSE)
              /\ todo' = todo
    /\ UNCHANGED <<config, file, call, cpc, expired, result, persisted, sawPartial,
                   abandoned, started>>
    /\ UNCHANGED funVars

\* members: the second let mut status = lock.lock().unwrap(); while the
\* first guard is still alive.  Locking a std Mutex the thread already holds
\* never returns: the thread deadlocks, or it panics and unwinds, which
\* poisons every mutex whose guard it drops.
MembersRelock(c) ==
    /\ wpc[c] = "mb_relock"
    /\ \/ /\ wpc' = [wpc EXCEPT ![c] = "stuck"]
          /\ UNCHANGED <<wres, statusHolder, statusPoisoned, configHolder,
                         configPoisoned, connHolder, connPoisoned>>
       \/ WorkerReturn(c, "panic", TRUE)
    /\ UNCHANGED <<config, file, call, cpc, status, expired, result, todo, notified,
                   persisted, sawPartial, abandoned, started>>
    /\ UNCHANGED funVars

\* store: let mut status = lock.lock().unwrap(); taken before the statements
\* and held until the worker returns.
StoreLockStatus(c) ==
    /\ wpc[c] = "st_lock_status"
    /\ LockReturns(statusHolder[c])
    /\ statusHolder' = [statusHolder EXCEPT ![c] = Worker(c)]
    /\ wpc' = [wpc EXCEPT ![c] = "st_logs"]
    /\ UNCHANGED <<config, file, configHolder, configPoisoned, connHolder,
                   connPoisoned, call, cpc, status, statusPoisoned, expired, result,
                   wres, todo, notified, persisted, sawPartial, abandoned, started>>
    /\ UNCHANGED funVars

\* store: execute(InsertIntoLogs) then execute(UpsetStatistics).  A
\* statement can fail only when there is a row to write.
StoreExecute(c) ==
    /\ wpc[c] \in {"st_logs", "st_stats"}
    /\ \E sqlOk \in BOOLEAN :
         /\ (call[c].users = {}) => sqlOk
         /\ IF ~sqlOk
            THEN /\ SetAndNotify(c, "ExitFailure")
                 /\ WorkerReturn(c, "FailedToStore", FALSE)
            ELSE IF wpc[c] = "st_logs"
            THEN /\ wpc' = [wpc EXCEPT ![c] = "st_stats"]
                 /\ UNCHANGED <<wres, status, notified, statusHolder, statusPoisoned,
                                configHolder, configPoisoned, connHolder, connPoisoned>>
            ELSE /\ SetAndNotify(c, "ExitSuccess")
                 /\ WorkerReturn(c, "Ok", FALSE)
    /\ UNCHANGED <<config, file, call, cpc, expired, result, todo, persisted,
                   sawPartial, abandoned, started>>
    /\ UNCHANGED funVars

\* Weapon::iter() as &'static str, the keys valid_weapon accepts.
ValidWeapon(columns) == \A i \in 1..Len(columns) : columns[i] \in WeaponKeys

\* query: the closure that validates the filter and runs the SELECT.
QueryBody(c) ==
    /\ wpc[c] = "q_body"
    /\ \E sqlOk \in BOOLEAN :
         wres' = [wres EXCEPT ![c] =
                    IF ~ValidWeapon(call[c].arg) THEN "InvalidWeapon"
                    ELSE IF ~sqlOk THEN "FailedToAggregate"
                    ELSE "Ok"]
    /\ wpc' = [wpc EXCEPT ![c] = "signal"]
    /\ UNCHANGED <<config, file, configHolder, configPoisoned, connHolder,
                   connPoisoned, call, cpc, status, statusHolder, statusPoisoned,
                   expired, result, todo, notified, persisted, sawPartial,
                   abandoned, started>>
    /\ UNCHANGED funVars

\* ------------------------------------------------------------------------
\* Callers
\* ------------------------------------------------------------------------

\* Handlers are anonymous: of the idle slots the first one is used.
SlotOrder(c, d) == c = d \/ c = "c1"

\* An interaction handler starts a command.  The coordinator-based
\* executors create the pair and spawn the worker at once.
Start(c) ==
    /\ cpc[c] = "idle"
    /\ started < MaxStarted
    /\ \A d \in Calls : cpc[d] = "idle" => SlotOrder(c, d)
    /\ started' = started + 1
    /\ \E k \in Commands :
         /\ call' = [call EXCEPT ![c] = k]
         /\ cpc' = [cpc EXCEPT ![c] =
                      CASE k.kind = "info" -> "info"
                        [] k.kind = "generate" -> "gen_lock"
                        [] OTHER -> "wait_begin"]
         /\ wpc' = [wpc EXCEPT ![c] =
                      IF k.kind \in {"info", "generate"} THEN "none" ELSE "poll"]
    /\ UNCHANGED <<config, file, configHolder, configPoisoned, connHolder,
                   connPoisoned, status, statusHolder, statusPoisoned, expired,
                   result, wres, todo, notified, persisted, sawPartial, abandoned>>
    /\ UNCHANGED funVars

\* settings info: CONFIG.lock().unwrap(), format, unlock.  Formatting the
\* target quests indexes the quest table and panics out of bounds.
Info(c) ==
    /\ cpc[c] = "info"
    /\ LockReturns(configHolder)
    /\ sawPartial' = (sawPartial \/ (~configPoisoned /\ Partial))
    /\ IF configPoisoned
       THEN CallerReturn(c, "panic", FALSE)
       ELSE IF call[c].choice = "quest" /\ ~InfoIndexOk(config)
       THEN CallerPanicsInConfig(c)
       ELSE CallerReturn(c, "Ok", FALSE)
    /\ UNCHANGED <<config, file, connHolder, connPoisoned, call, wpc, status,
                   expired, wres, todo, notified, persisted, started>>
    /\ UNCHANGED funVars

\* QUESTS[lower..upper] panics unless lower <= upper <= QUESTS.len().
SliceOk(lower, upper) == lower <= upper /\ upper <= QuestRanks

\* A rank outside the quest table: stands for "the slice is empty".
NoRank == QuestRanks

\* QUESTS[lower..upper].choose(): any rank of the half-open slice, or none
\* when the slice is empty.  generate monster picks no rank.
PickableRanks(quest, lower, upper) ==
    IF ~quest THEN {0}
    ELSE IF lower = upper THEN {NoRank}
    ELSE lower..(upper - 1)

\* generate_impl: let config = CONFIG.lock().unwrap(); pick the quest or
\* monster; then store(regulations) with the Config guard still alive.
GenerateLock(c) ==
    /\ cpc[c] = "gen_lock"
    /\ LockReturns(configHolder)
    /\ sawPartial' = (sawPartial \/ (~configPoisoned /\ Partial))
    /\ LET lower == config.range.lower
           upper == config.range.upper
           quest == call[c].choice = "quest"
       IN  IF configPoisoned
           THEN /\ CallerReturn(c, "panic", FALSE)
                /\ UNCHANGED <<call, wpc>>
           ELSE IF quest /\ ~SliceOk(lower, upper)
           THEN /\ CallerPanicsInConfig(c)
                /\ UNCHANGED <<call, wpc>>
           ELSE \E pick \in PickableRanks(quest, lower, upper) :
                  IF quest /\ QuestsLen(pick) = 0
                  THEN \* choose() found no quest: Err("failed to choose.")
                       /\ CallerReturn(c, "FailedToChoose", FALSE)
                       /\ UNCHANGED <<call, wpc>>
                  ELSE /\ configHolder' = Caller(c)
                       /\ call' = [call EXCEPT ![c].users = config.members]
                       /\ cpc' = [cpc EXCEPT ![c] = "wait_begin"]
                       /\ wpc' = [wpc EXCEPT ![c] = "poll"]
                       /\ UNCHANGED <<result, abandoned, statusHolder,
                                      statusPoisoned, configPoisoned>>
    /\ UNCHANGED <<config, file, connHolder, connPoisoned, status, expired, wres,
                   todo, notified, persisted, started>>
    /\ UNCHANGED funVars

\* The wait returned with a status other than Pending; the caller holds the
\* pair's guard until it returns.  handle.join().unwrap()? where the
\* executor joins; then the settings executors go on to sync_all, store and
\* query return what the worker returned.
Proceed(c) ==
    /\ Kind(c) \in JoinKinds => wpc[c] = "exit"
    /\ IF Kind(c) \in JoinKinds /\ wres[c] # "Ok"
       THEN CallerReturn(c, wres[c], wres[c] = "panic")
       ELSE IF Kind(c) \in ConnKinds
       THEN CallerReturn(c, "Ok", FALSE)
       ELSE /\ cpc' = [cpc EXCEPT ![c] = "sync_open"]
            /\ statusHolder' = [statusHolder EXCEPT ![c] = Caller(c)]
            /\ UNCHANGED <<result, abandoned, statusPoisoned, configHolder,
                           configPoisoned>>

\* cvar.wait_timeout_while(lock.lock().unwrap(), ..., |s| *s == Pending):
\* lock the pair's mutex, test the status once, and either go on with the
\* guard or release the mutex and wait.
CallerWaitBegin(c) ==
    /\ cpc[c] = "wait_begin"
    /\ LockReturns(statusHolder[c])
    /\ IF statusPoisoned[c]
       THEN CallerReturn(c, "panic", TRUE)
       ELSE IF AfterWait(status[c], FALSE) = "proceed"
       THEN Proceed(c)
       ELSE /\ cpc' = [cpc EXCEPT ![c] = "waiting"]
            /\ UNCHANGED <<result, abandoned, statusHolder, statusPoisoned,
                           configHolder, configPoisoned>>
    /\ UNCHANGED <<config, file, connHolder, connPoisoned, call, wpc, status,
                   expired, wres, todo, notified, persisted, sawPartial, started>>
    /\ UNCHANGED funVars

\* The timeout of the wait elapses.
Expire(c) ==
    /\ cpc[c] = "waiting"
    /\ ~expired[c]
    /\ expired' = [expired EXCEPT ![c] = TRUE]
    /\ UNCHANGED <<config, file, configHolder, configPoisoned, connHolder,
                   connPoisoned, call, cpc, wpc, status, statusHolder, statusPoisoned,
                   result, wres, todo, notified, persisted, sawPartial, abandoned,
                   started>>
    /\ UNCHANGED funVars

\* The wait ends (notified, or timed out): the caller re-acquires the pair's
\* mutex, which blocks while the worker holds it, and tests the status.
CallerWake(c) ==
    /\ cpc[c] = "waiting"
    /\ status[c] # "Pending" \/ expired[c]
    /\ LockReturns(statusHolder[c])
    /\ IF statusPoisoned[c]
       THEN CallerReturn(c, "panic", TRUE)
       ELSE IF AfterWait(status[c], expired[c]) = "proceed"
       THEN Proceed(c)
       ELSE CallerReturn(c, AfterWait(status[c], expired[c]), FALSE)
    /\ UNCHANGED <<config, file, connHolder, connPoisoned, call, wpc, status,
                   expired, wres, todo, notified, persisted, sawPartial, started>>
    /\ UNCHANGED funVars

\* sync_all: open the configuration file with truncate(true).
SyncOpen(c) ==
    /\ cpc[c] = "sync_open"
    /\ file' = Truncate(file)
    /\ cpc' = [cpc EXCEPT ![c] = "sync_write"]
    /\ UNCHANGED <<config, configHolder, configPoisoned, connHolder, connPoisoned,
                   call, wpc, status, statusHolder, statusPoisoned, expired, result,
                   wres, todo, notified, persisted, sawPartial, abandoned, started>>
    /\ UNCHANGED funVars

\* sync_all: write_all(toml::to_string_pretty(&*CONFIG.lock().unwrap())).
\* exclude, target and obliterate then return their fixed message.
SyncWrite(c) ==
    /\ cpc[c] = "sync_write"
    /\ LockReturns(configHolder)
    /\ sawPartial' = (sawPartial \/ (~configPoisoned /\ Partial))
    /\ IF configPoisoned
       THEN /\ CallerReturn(c, "panic", TRUE)
            /\ UNCHANGED <<file, persisted>>
       ELSE /\ file' = WriteAll(file, ToStringPretty(config))
            /\ persisted' = [persisted EXCEPT ![c] = TRUE]
            /\ IF Kind(c) \in {"range", "members"}
               THEN /\ cpc' = [cpc EXCEPT ![c] = "respond"]
                    /\ UNCHANGED <<result, abandoned, statusHolder, statusPoisoned,
                                   configHolder, configPoisoned>>
               ELSE CallerReturn(c, "Ok", FALSE)
    /\ UNCHANGED <<config, connHolder, connPoisoned, call, wpc, status, expired,
                   wres, todo, notified, started>>
    /\ UNCHANGED funVars

\* range, members: the response is formatted from CONFIG.lock().unwrap().
Respond(c) ==
    /\ cpc[c] = "respond"
    /\ LockReturns(configHolder)
    /\ sawPartial' = (sawPartial \/ (~configPoisoned /\ Partial))
    /\ CallerReturn(c, IF configPoisoned THEN "panic" ELSE "Ok", configPoisoned)
    /\ UNCHANGED <<config, file, connHolder, connPoisoned, call, wpc, status,
                   expired, wres, todo, notified, persisted, started>>
    /\ UNCHANGED funVars

\* The handler and its worker have ended: the slot serves another command.
Reset(c) ==
    /\ cpc[c] = "done"
    /\ wpc[c] \in {"none", "exit"}
    /\ started < MaxStarted
    /\ call' = [call EXCEPT ![c] = NoCall]
    /\ cpc' = [cpc EXCEPT ![c] = "idle"]
    /\ wpc' = [wpc EXCEPT ![c] = "none"]
    /\ status' = [status EXCEPT ![c] = "Pending"]
    /\ statusPoisoned' = [statusPoisoned EXCEPT ![c] = FALSE]
    /\ expired' = [expired EXCEPT ![c] = FALSE]
    /\ result' = [result EXCEPT ![c] = "none"]
    /\ wres' = [wres EXCEPT ![c] = "none"]
    /\ todo' = [todo EXCEPT ![c] = {}]
    /\ notified' = [notified EXCEPT ![c] = 0]
    /\ persisted' = [persisted EXCEPT ![c] = FALSE]
    /\ abandoned' = [abandoned EXCEPT ![c] = FALSE]
    /\ UNCHANGED <<config, file, configHolder, configPoisoned, connHolder,
                   connPoisoned, statusHolder, sawPartial, started>>
    /\ UNCHANGED funVars

Next ==
    \E c \in Calls :
        \/ Start(c)
        \/ Info(c)
        \/ GenerateLock(c)
        \/ CallerWaitBegin(c)
        \/ Expire(c)
        \/ CallerWake(c)
        \/ SyncOpen(c)
        \/ SyncWrite(c)
        \/ Respond(c)
        \/ Reset(c)
        \/ WorkerTryLockConfig(c)
        \/ WorkerTryLockConn(c)
        \/ RangeApply(c)
        \/ ObliterateFirst(c)
        \/ ObliterateSecond(c)
        \/ Cast(c)
        \/ MembersApply(c)
        \/ Loop(c)
        \/ Signal(c)
        \/ MembersLockStatus(c)
        \/ MembersLockConn(c)
        \/ MembersSql(c)
        \/ MembersRelock(c)
        \/ StoreLockStatus(c)
        \/ StoreExecute(c)
        \/ QueryBody(c)

Spec == Init /\ [][Next]_vars

\* A step of the worker thread of c.
WorkerStep(c) ==
    \/ WorkerTryLockConfig(c)
    \/ WorkerTryLockConn(c)
    \/ RangeApply(c)
    \/ ObliterateFirst(c)
    \/ ObliterateSecond(c)
    \/ Cast(c)
    \/ MembersApply(c)
    \/ Loop(c)
    \/ Signal(c)
    \/ MembersLockStatus(c)
    \/ MembersLockConn(c)
    \/ MembersSql(c)
    \/ MembersRelock(c)
    \/ StoreLockStatus(c)
    \/ StoreExecute(c)
    \/ QueryBody(c)

\* A step of the handler thread of c, the passing of its timeout included.
CallerStep(c) ==
    \/ Info(c)
    \/ GenerateLock(c)
    \/ CallerWaitBegin(c)
    \/ Expire(c)
    \/ CallerWake(c)
    \/ SyncOpen(c)
    \/ SyncWrite(c)
    \/ Respond(c)

\* The threads are scheduled: a handler that can take a step takes one, and
\* a worker whose step is possible again and again (its polling try_lock
\* finds the mutex free again and again) takes it.
LiveSpec ==
    /\ Init
    /\ [][Next]_vars
    /\ \A c \in Calls : WF_vars(CallerStep(c)) /\ SF_vars(WorkerStep(c))

\* ------------------------------------------------------------------------
\* Functions applied on their own
\* ------------------------------------------------------------------------

\* Longest token sequence given to a validator.
MaxTokens == 3

\* Tokens given to the weapon validators: two keys, an unknown key and a
\* key in the wrong case.
WeaponTokens == {"bow", "lance", "katana", "Bow"}

\* All sequences of at most n elements of S.
SeqsUpTo(S, n) == UNION {[1..k -> S] : k \in 0..n}

\* The first invalid token only, as a validator that stops at it would give.
InvalidWeaponTokensFirst(arg) ==
    LET bad == SelectSeq(arg, LAMBDA t : ~ValidToken("weapon", t))
    IN  IF bad = <<>> THEN <<>> ELSE <<bad[1]>>

\* validate_for<Weapon>, the error closure: filter_map over all the tokens
\* keeps, in order, those that are not among the keys.
InvalidWeaponTokens(arg) == SelectSeq(arg, LAMBDA t : ~ValidToken("weapon", t))

\* validate_for<Weapon>: all(..) of the tokens, then Validated or
\* CommandError::InvalidArgument { arg: invalid tokens joined }.
ValidateForWeapon(arg) ==
    IF ValidateFor("weapon", arg)
    THEN [ok |-> TRUE, err |-> "none", list |-> <<>>]
    ELSE [ok |-> FALSE, err |-> "InvalidArgument", list |-> InvalidWeaponTokens(arg)]

WeaponInputs(op) ==
    {Input(op, toks, 0, 0, <<>>, NoInput.cfg) : toks \in SeqsUpTo(WeaponTokens, MaxTokens)}

\* A function returns r for the input of the operation op.
Returns(op, r) ==
    /\ pin.op = op
    /\ pout.phase = 0
    /\ pout' = r
    /\ UNCHANGED <<pin, botVars>>

\* validate_for<Weapon> applied to the tokens.
ValidateWeapon ==
    LET r == ValidateForWeapon(pin.toks)
    IN  Returns("validate_weapon",
                Output(2, r.ok, r.err, r.list, NoCall, "", pin.cfg, <<>>))

\* Largest bound submitted to range (the command offers 1 to 8).
MaxRankInput == 9

RangeInputs(op) ==
    {Input(op, <<>>, lower, upper, <<>>, NoInput.cfg) :
        lower \in 0..MaxRankInput, upper \in 0..MaxRankInput}

\* range(lower, upper): the body of the worker applied to Config.
RangeStore ==
    Returns("range_store",
            Output(2, TRUE, "none", <<>>, NoCall, "",
                   StoreRange(pin.cfg, pin.lower, pin.upper), <<>>))

\* Longest error chain given to triage.
MaxChain == 3

\* Causes of a chain: typed errors, and "context" for an untyped cause (a
\* context wrapper, an error of another crate).
Causes ==
    {"InvalidWeapon", "InvalidDate", "FailedToStore", "FailedToAggregate",
     "UnreachableGuard", "TimeLimitExceeded", "FailedToSync", "InvalidArgument",
     "context"}

\* A triage that takes every typed error for Immediate.
TagOfTyped(cause) == IF cause = "context" THEN "None" ELSE "Immediate"

\* ErrorExt::triage of the typed errors; "None" for a cause that
\* downcasts to none of QueryError, LogicError, CommandError.
TagOf(cause) ==
    CASE cause \in {"FailedToAggregate", "UnreachableGuard", "TimeLimitExceeded",
                    "FailedToSync"} -> "Immediate"
      [] cause = "FailedToStore" -> "Delayed"
      [] cause \in {"InvalidWeapon", "InvalidDate", "InvalidArgument"} -> "NotBad"
      [] OTHER -> "None"

\* The derived Ord of Option<TriageTag>: None is least, then the variants
\* in the order of their declaration.
TagOrd(tag) ==
    CASE tag = "None" -> 0
      [] tag = "Immediate" -> 1
      [] tag = "Delayed" -> 2
      [] tag = "Minor" -> 3
      [] tag = "NotBad" -> 4

\* <anyhow::Error as ErrorExt>::triage: the max(), by the derived Ord, of
\* the tags of all the causes of the chain.
Triage(chain) ==
    LET tags == {TagOf(chain[i]) : i \in 1..Len(chain)}
    IN  CHOOSE t \in tags : \A u \in tags : TagOrd(u) <= TagOrd(t)

ChainInputs(op) ==
    {Input(op, chain, 0, 0, <<>>, NoInput.cfg) :
        chain \in SeqsUpTo(Causes, MaxChain) \ {<<>>}}

\* triage() applied to an error chain.
TriageChain ==
    Returns("triage",
            Output(2, TRUE, "none", <<>>, NoCall, Triage(pin.toks), pin.cfg, <<>>))

\* A field of an interaction: (key, Response).  marker is "command",
\* "sub_command", "option" (a SlashCommand) or "button" (a Component); an
\* option carries a value of kind "string", "integer" or "user".
Field(key, marker, vkind, text, int) ==
    [key |-> key, marker |-> marker, vkind |-> vkind, text |-> text, int |-> int]

CommandField(name) == Field("command", "command", "none", name, 0)
SubCommandField(name) == Field("sub_command", "sub_command", "none", name, 0)
StringField(key, v) == Field(key, "option", "string", v, 0)
IntegerField(key, n) == Field(key, "option", "integer", "", n)
UserField(key, u) == Field(key, "option", "user", u, 0)
ButtonField(id) == Field("button", "button", "none", id, 0)

\* The result of a translation: the value, or the chain of the error.
Translated(v) == [ok |-> TRUE, chain |-> <<>>, val |-> v]
Untranslated(chain) == [ok |-> FALSE, chain |-> chain, val |-> "none"]

\* anyhow!(..) / anyhow::bail!(..): an error made of a message.
MessageError == <<"message">>

\* bailout!(context, LogicError::UnreachableGuard {..}): the typed error
\* under a context wrapper.
UnreachableGuard == <<"context", "UnreachableGuard">>

\* The variant of Commands each arm of translate_to<Commands> returns.
CommandsVariant(name) ==
    CASE name = "version" -> "Version"
      [] name = "settings" -> "Settings"
      [] name = "generate" -> "Generate"
      [] name = "statistics" -> "Statistics"

\* translate_to<Commands> that also takes a sub-command marker for a command.
TranslateToCommandsAnyMarker(f) ==
    IF f.marker \in {"command", "sub_command"}
         /\ f.text \in {"version", "settings", "generate", "statistics"}
    THEN Translated(CommandsVariant(f.text))
    ELSE Untranslated(MessageError)

\* translate_to<Commands>: a Command marker named version, settings,
\* generate or statistics; anything else is an error.
TranslateToCommands(f) ==
    IF f.marker = "command"
         /\ f.text \in {"version", "settings", "generate", "statistics"}
    THEN Translated(CommandsVariant(f.text))
    ELSE Untranslated(MessageError)

\* translate_to<Options>, <Choices>, <About>: a string option with one of
\* the names.
TranslateToName(f, names) ==
    IF f.marker = "option" /\ f.vkind = "string" /\ f.text \in names
    THEN Translated(f.text)
    ELSE Untranslated(MessageError)

TranslateToOptions(f) == TranslateToName(f, {"set", "add", "remove"})
TranslateToChoices(f) == TranslateToName(f, {"quest", "monster", "weapon"})
TranslateToAbout(f) == TranslateToName(f, {"quest", "monster", "weapon", "members"})

\* translate_to<String>: any string option.
TranslateToString(f) ==
    IF f.marker = "option" /\ f.vkind = "string"
    THEN Translated(f.text)
    ELSE Untranslated(MessageError)

\* str::parse::<i64> of the strings used here: a single digit parses.
ParsesAsI64(text) == text \in Digits

\* translate_to<i64>: an integer option, or a string option that parses.
TranslateToI64(f) ==
    IF f.marker = "option" /\ f.vkind = "integer" THEN Translated(f.int)
    ELSE IF f.marker = "option" /\ f.vkind = "string" /\ ParsesAsI64(f.text)
    THEN Translated(DigitVal(f.text))
    ELSE [ok |-> FALSE, chain |-> MessageError, val |-> 0]

\* translate_to<User>: a user option.
TranslateToUser(f) ==
    IF f.marker = "option" /\ f.vkind = "user"
    THEN Translated(f.text)
    ELSE Untranslated(MessageError)

\* translate_to<Vec<User>>: the fields that translate, the others dropped.
TranslateToUsers(fs) ==
    {TranslateToUser(fs[i]).val : i \in {j \in 1..Len(fs) : TranslateToUser(fs[j]).ok}}

\* The result of an assembler: the typed sub-command, or the error chain.
Assembled(cmd) == [ok |-> TRUE, chain |-> <<>>, cmd |-> cmd]
NotAssembled(chain) == [ok |-> FALSE, chain |-> chain, cmd |-> NoCall]

\* [SubCommand(sub_cmd), ..] if sub_cmd == name, with n fields in all.
IsSub(fs, name) ==
    Len(fs) >= 1 /\ fs[1].marker = "sub_command" /\ fs[1].text = name

\* The settings assembler taking the range from its first two options
\* whatever the number of fields.
AssembleSettingsLenient(fs) ==
    IF IsSub(fs, "range") /\ Len(fs) >= 3
         /\ TranslateToI64(fs[2]).ok /\ TranslateToI64(fs[3]).ok
    THEN Assembled(Cmd("range", "set", "quest", <<>>, {},
                       TranslateToI64(fs[2]).val, TranslateToI64(fs[3]).val))
    ELSE NotAssembled(UnreachableGuard)

\* translate_to<SettingsSubCommands>: the arms of the match in order; a
\* field that does not translate returns its error through `?`; a
\* sequence matching no arm bails out with LogicError::UnreachableGuard.
AssembleSettings(fs) ==
    LET n == Len(fs)
        opt == TranslateToOptions(fs[2])
        cho == TranslateToChoices(fs[3])
        str == TranslateToString(fs[4])
    IN  CASE IsSub(fs, "info") /\ n = 2 ->
               IF TranslateToAbout(fs[2]).ok
               THEN Assembled(Cmd("info", "set", TranslateToAbout(fs[2]).val, <<>>, {}, 0, 0))
               ELSE NotAssembled(MessageError)
          [] IsSub(fs, "members") /\ n >= 2 ->
               IF opt.ok
               THEN Assembled(Cmd("members", opt.val, "quest", <<>>,
                                  TranslateToUsers(SubSeq(fs, 3, n)), 0, 0))
               ELSE NotAssembled(MessageError)
          [] IsSub(fs, "range") /\ n = 3 ->
               IF TranslateToI64(fs[2]).ok /\ TranslateToI64(fs[3]).ok
               THEN Assembled(Cmd("range", "set", "quest", <<>>, {},
                                  TranslateToI64(fs[2]).val, TranslateToI64(fs[3]).val))
               ELSE NotAssembled(MessageError)
          [] (IsSub(fs, "exclude") \/ IsSub(fs, "target")) /\ n = 4 ->
               IF opt.ok /\ cho.ok /\ str.ok
               THEN Assembled(Cmd(fs[1].text, opt.val, cho.val, <<str.val>>, {}, 0, 0))
               ELSE NotAssembled(MessageError)
          [] IsSub(fs, "obliterate") /\ n = 2 ->
               IF TranslateToChoices(fs[2]).ok
               THEN Assembled(Cmd("obliterate", "set", TranslateToChoices(fs[2]).val,
                                  <<>>, {}, 0, 0))
               ELSE NotAssembled(MessageError)
          [] OTHER -> NotAssembled(UnreachableGuard)

\* The positions of the fields that translate to a User, and of those that
\* translate to a String under the key.
UserPositions(fs) == {i \in 1..Len(fs) : TranslateToUser(fs[i]).ok}
StringPositions(fs, key) ==
    {i \in 1..Len(fs) : TranslateToString(fs[i]).ok /\ fs[i].key = key}

\* Least and greatest element of a non-empty set of numbers.
Least(S) == CHOOSE i \in S : \A j \in S : i <= j
Greatest(S) == CHOOSE i \in S : \A j \in S : j <= i

\* translate_to<StatisticsSubCommands>: help alone, or query followed by
\* fields of which the first that translates to a User is `from`; the
\* strings are collected by key into a map (the last of a key wins) and
\* the one under "weapon" is the filter.
AssembleStatistics(fs) ==
    LET n == Len(fs)
        rest == SubSeq(fs, 2, n)
        users == UserPositions(rest)
        weapons == StringPositions(rest, "weapon")
    IN  CASE IsSub(fs, "help") /\ n = 1 ->
               Assembled(Cmd("help", "set", "weapon", <<>>, {}, 0, 0))
          [] IsSub(fs, "query") ->
               IF users = {}
               THEN NotAssembled(<<"context", "message">>)
               ELSE Assembled(Cmd("query", "set", "weapon",
                                  IF weapons = {} THEN <<>>
                                  ELSE <<rest[Greatest(weapons)].text>>,
                                  {rest[Least(users)].text}, 0, 0))
          [] OTHER -> NotAssembled(UnreachableGuard)

\* First fields given to the settings assembler: every sub-command, an
\* unknown one, a command marker and an option.
SettingsHeads ==
    {SubCommandField("info"), SubCommandField("members"), SubCommandField("range"),
     SubCommandField("exclude"), SubCommandField("target"),
     SubCommandField("obliterate"), SubCommandField("bogus"),
     CommandField("settings"), StringField("option", "set")}

\* Fields that follow the first one.
SettingsOptions ==
    {StringField("option", "set"), StringField("option", "weapon"),
     StringField("option", "3"), IntegerField("option", 6),
     UserField("option", "u1"), SubCommandField("range")}

\* First fields given to the statistics assembler.
StatisticsHeads ==
    {SubCommandField("help"), SubCommandField("query"), SubCommandField("bogus"),
     CommandField("statistics"), UserField("from", "u1")}

StatisticsOptions ==
    {UserField("from", "u1"), UserField("from", "u2"),
     StringField("weapon", "bow"), StringField("weapon", "lance"),
     StringField("since", "3")}

\* Longest field sequence given to an assembler.
MaxFields == 4

\* No field, or a first field followed by up to MaxFields - 1 others.
FieldSeqs(heads, options) ==
    {<<>>} \cup {<<h>> \o t : h \in heads, t \in SeqsUpTo(options, MaxFields - 1)}

FieldInputs(op, heads, options) ==
    {Input(op, <<>>, 0, 0, fs, NoInput.cfg) : fs \in FieldSeqs(heads, options)}

\* translate_to<SettingsSubCommands> applied to the fields.
TranslateSettings ==
    LET r == AssembleSettings(pin.fields)
    IN  Returns("assemble_settings",
                Output(2, r.ok, IF r.ok THEN "none" ELSE r.chain[Len(r.chain)],
                       r.chain, r.cmd, IF r.ok THEN "" ELSE Triage(r.chain),
                       pin.cfg, <<>>))

\* translate_to<StatisticsSubCommands> applied to the fields.
TranslateStatistics ==
    LET r == AssembleStatistics(pin.fields)
    IN  Returns("assemble_statistics",
                Output(2, r.ok, IF r.ok THEN "none" ELSE r.chain[Len(r.chain)],
                       r.chain, r.cmd, IF r.ok THEN "" ELSE Triage(r.chain),
                       pin.cfg, <<>>))

\* usize Display: the decimal digits of n, most significant first.
DigitChar(d) ==
    CASE d = 0 -> "0" [] d = 1 -> "1" [] d = 2 -> "2" [] d = 3 -> "3"
      [] d = 4 -> "4" [] d = 5 -> "5" [] d = 6 -> "6" [] d = 7 -> "7"
      [] d = 8 -> "8" [] d = 9 -> "9"

RECURSIVE UsizeToString(_)
UsizeToString(n) ==
    IF n < 10 THEN <<DigitChar(n)>>
    ELSE UsizeToString(n \div 10) \o <<DigitChar(n % 10)>>

\* The pretty string showing the lower bound in both places.
AsPrettyStringLower(range) ==
    <<"Range = [", "star">> \o UsizeToString(range.lower)
       \o <<" ~ ", "star">> \o UsizeToString(range.lower) \o <<"]">>

\* Range::as_pretty_string: format!("Range = [★{} ~ ★{}]", lower, upper) as
\* the sequence of its pieces; "star" is the character U+2605.
AsPrettyString(range) ==
    <<"Range = [", "star">> \o UsizeToString(range.lower)
       \o <<" ~ ", "star">> \o UsizeToString(range.upper) \o <<"]">>

\* What an executor returns and the Config it leaves: Ok(Request) with its
\* message, or the chain of the error.
Done(cmd, cfg, msg) ==
    [ok |-> TRUE, chain |-> <<>>, cmd |-> cmd, cfg |-> cfg, msg |-> msg]
Failed(chain, cmd, cfg) ==
    [ok |-> FALSE, chain |-> chain, cmd |-> cmd, cfg |-> cfg, msg |-> <<>>]

\* range(lower, upper) called alone: the worker stores the range and the
\* caller answers with the range read back from CONFIG; or the 100 ms wait
\* ends first and the caller bails out ("TLE") while the worker, which
\* nothing cancels, stores before or after the return.
RangeOutcomes(cmd, cfg) ==
    LET stored == StoreRange(cfg, cmd.lower, cmd.upper)
    IN  {Done(cmd, stored, AsPrettyString(stored.range))}
          \cup {Failed(<<"context", "TimeLimitExceeded">>, cmd, c) : c \in {cfg, stored}}

\* The add or remove loop of exclude / target over the set smart_cast
\* returned.
RECURSIVE ApplyItems(_, _, _, _, _)
ApplyItems(cfg, opt, list, choice, items) ==
    IF items = {} THEN cfg
    ELSE LET x == CHOOSE x \in items : TRUE
         IN  ApplyItems(ApplyItem(cfg, opt, list, choice, x), opt, list, choice,
                        items \ {x})

\* exclude(opt, choice, arg) called alone.  The worker casts the argument
\* and assigns, inserts or removes; the caller answers "Done!".  When the
\* cast fails the worker ends without a signal and the caller's wait ends
\* with TimeLimitExceeded; so it does when the 100 ms end first, the
\* worker storing before or after the return.
ExcludeOutcomes(cmd, cfg) ==
    LET cast == SmartCast(cmd.choice, cmd.arg)
        stored == IF cmd.opt = "set"
                  THEN AssignList(cfg, "excluded", cmd.choice, cast.set)
                  ELSE ApplyItems(cfg, cmd.opt, "excluded", cmd.choice, cast.set)
        tle == <<"context", "TimeLimitExceeded">>
    IN  IF cast.err # "none" THEN {Failed(tle, cmd, cfg)}
        ELSE {Done(cmd, stored, <<"Done!">>)}
               \cup {Failed(tle, cmd, c) : c \in {cfg, stored}}

\* A target that writes the excluded list.
TargetOutcomesExcluded(cmd, cfg) == ExcludeOutcomes(cmd, cfg)

\* target(opt, choice, arg) called alone: the same steps as exclude, on
\* config.settings.target.
TargetOutcomes(cmd, cfg) ==
    LET cast == SmartCast(cmd.choice, cmd.arg)
        stored == IF cmd.opt = "set"
                  THEN AssignList(cfg, "target", cmd.choice, cast.set)
                  ELSE ApplyItems(cfg, cmd.opt, "target", cmd.choice, cast.set)
        tle == <<"context", "TimeLimitExceeded">>
    IN  IF cast.err # "none" THEN {Failed(tle, cmd, cfg)}
        ELSE {Done(cmd, stored, <<"Done!">>)}
               \cup {Failed(tle, cmd, c) : c \in {cfg, stored}}

\* settings(items): the assembler, then the executor of the sub-command.
SettingsOutcomes(items, cfg) ==
    LET r == AssembleSettings(items)
    IN  IF ~r.ok THEN {Failed(r.chain, NoCall, cfg)}
        ELSE CASE r.cmd.kind = "range" -> RangeOutcomes(r.cmd, cfg)
               [] r.cmd.kind = "exclude" -> ExcludeOutcomes(r.cmd, cfg)

\* interaction_endpoint(items): the first field chooses the executor; a
\* first field that is no command, and no field at all, bail with a
\* message.
InteractionEndpoint(items, cfg) ==
    IF items = <<>> THEN {Failed(MessageError, NoCall, cfg)}
    ELSE LET command == TranslateToCommands(items[1])
         IN  IF command.ok
             THEN CASE command.val = "Settings" -> SettingsOutcomes(Tail(items), cfg)
             ELSE {Failed(MessageError, NoCall, cfg)}

\* First fields given to the endpoint.
EndpointHeads ==
    {CommandField("settings"), CommandField("bogus"), SubCommandField("settings"),
     StringField("command", "settings"), ButtonField("settings")}

\* Fields that follow the first one.
EndpointOptions ==
    {SubCommandField("range"), SubCommandField("bogus"),
     StringField("lower", "3"), StringField("upper", "6"), StringField("upper", "x")}

\* interaction_endpoint applied to the fields.
Endpoint ==
    /\ pin.op = "endpoint"
    /\ \E r \in InteractionEndpoint(pin.fields, pin.cfg) :
        Returns("endpoint",
                Output(2, r.ok, IF r.ok THEN "none" ELSE r.chain[Len(r.chain)],
                       r.chain, r.cmd, IF r.ok THEN "" ELSE Triage(r.chain),
                       r.cfg, r.msg))

\* Names given to translate_to<Commands>: the four commands, a name in
\* another case, a sub-command name and the empty name.
CommandNames ==
    {"settings", "generate", "statistics", "version", "Settings", "help", ""}

\* Single fields of every marker carrying these names.
CommandFields ==
    UNION {{CommandField(n), SubCommandField(n), StringField("command", n),
            ButtonField(n)} : n \in CommandNames}

CommandInputs(op) ==
    {Input(op, <<>>, 0, 0, <<f>>, NoInput.cfg) : f \in CommandFields}

\* translate_to<Commands> applied to the field.
TranslateCommand ==
    LET r == TranslateToCommands(pin.fields[1])
    IN  Returns("translate_commands",
                Output(2, r.ok, IF r.ok THEN "none" ELSE r.chain[Len(r.chain)],
                       r.chain, NoCall, "", pin.cfg, <<r.val>>))

\* Columns of a weapon filter as split(',') gives them: valid keys, one
\* with a space before it, and strings that are no key.
ColumnTokens == {"bow", " lance", "katana", "Bow"}

\* str::trim of the columns used here.
Trim(column) == IF column = " lance" THEN "lance" ELSE column

\* valid_weapon(columns): each trimmed column becomes Ok(column) or
\* Err(InvalidWeapon { actual: column }) under the context "validation
\* error."; collect::<anyhow::Result<Vec<_>>>() stops at the first Err and
\* returns it, and otherwise the columns are joined.
ValidWeaponColumns(columns) ==
    LET trimmed == [i \in 1..Len(columns) |-> Trim(columns[i])]
        invalid == {i \in 1..Len(trimmed) : trimmed[i] \notin WeaponKeys}
    IN  IF invalid = {}
        THEN [ok |-> TRUE, chain |-> <<>>, list |-> trimmed]
        ELSE [ok |-> FALSE, chain |-> <<"context", "InvalidWeapon">>,
              list |-> <<trimmed[Least(invalid)]>>]

\* split(',') gives at least one column.
ColumnInputs(op) ==
    {Input(op, toks, 0, 0, <<>>, NoInput.cfg) :
        toks \in SeqsUpTo(ColumnTokens, MaxTokens) \ {<<>>}}

\* valid_weapon applied to the columns; list holds the joined columns, or
\* the key the error names.
ValidWeaponFilter ==
    LET r == ValidWeaponColumns(pin.toks)
    IN  Returns("valid_weapon",
                Output(2, r.ok, IF r.ok THEN "none" ELSE r.chain[Len(r.chain)],
                       r.list, NoCall, IF r.ok THEN "" ELSE Triage(r.chain),
                       pin.cfg, <<>>))

\* Weapons excluded before the two calls, and the keys given to them.
ExcludedBefore == SUBSET {"bow", "lance", "hammer"}
ExcludeKeys == {"bow", "lance", "katana"}

ExcludeInputs(op) ==
    {Input(op, <<w>>, 0, 0, <<>>, [NoInput.cfg EXCEPT !.excluded["weapon"] = S]) :
        w \in ExcludeKeys, S \in ExcludedBefore}

\* exclude add weapon w, the first of the two calls.
ExcludeAdd ==
    /\ pin.op = "exclude_add_remove"
    /\ \E r \in ExcludeOutcomes(Cmd("exclude", "add", "weapon", pin.toks, {}, 0, 0),
                                pin.cfg) :
         Returns("exclude_add_remove",
                 Output(1, r.ok, IF r.ok THEN "none" ELSE r.chain[Len(r.chain)],
                        r.chain, r.cmd, IF r.ok THEN "" ELSE Triage(r.chain),
                        r.cfg, r.msg))

\* exclude remove weapon w, called after the first call succeeded, on the
\* Config that call left.
ExcludeRemove ==
    /\ pin.op = "exclude_add_remove"
    /\ pout.phase = 1
    /\ pout.ok
    /\ \E r \in ExcludeOutcomes(Cmd("exclude", "remove", "weapon", pin.toks, {}, 0, 0),
                                pout.cfg) :
         pout' = Output(2, r.ok, IF r.ok THEN "none" ELSE r.chain[Len(r.chain)],
                        r.chain, r.cmd, IF r.ok THEN "" ELSE Triage(r.chain),
                        r.cfg, r.msg)
    /\ UNCHANGED <<pin, botVars>>

\* Weapon::iter().map(|weapon| weapon.to_string()): the keys in the order
\* of the enum, the columns of a query without a weapon filter.
WeaponColumns ==
    <<"great_sword", "long_sword", "sword_and_shield", "dual_blades", "lance",
      "gunlance", "hammer", "hunting_horn", "switch_axe", "charge_blade",
      "insect_glaive", "light_bowgun", "heavy_bowgun", "bow", "tackle_only",
      "counter_only", "melee_attack_only", "skills_only", "palamute_only",
      "bom_only", "insect_only">>

\* Dates given as since / until: two RFC 3339 date-times and a plain day.
DateTexts ==
    {"2021-01-01T00:00:00+09:00", "2021-12-31T00:00:00+09:00", "2021-01-01"}

\* DateTime::parse_from_rfc3339 accepts a full date-time only.
ParsesAsRfc3339(date) ==
    date \in {"2021-01-01T00:00:00+09:00", "2021-12-31T00:00:00+09:00"}

\* .date().format("%Y-%m-%d").to_string()
FormatDay(date) ==
    IF date = "2021-01-01T00:00:00+09:00" THEN "2021-01-01" ELSE "2021-12-31"

\* The tokens format! puts after `id = '{id}'` for the bounds that are
\* given (<<>> stands for None): the text goes in as it is, with no AND
\* before it and no quotes around the days.
DatePredicate(since, until) ==
    CASE since # <<>> /\ until # <<>> ->
           <<"date(generated_at)", "BETWEEN", FormatDay(since[1]), "AND",
             FormatDay(until[1])>>
      [] since # <<>> /\ until = <<>> ->
           <<FormatDay(since[1]), "<=", "date(generated_at)">>
      [] since = <<>> /\ until # <<>> ->
           <<"date(generated_at)", "<=", FormatDay(until[1])>>
      [] OTHER -> <<>>

\* let table = if date.is_some() { "logs" } else { "statistics" }
TableOf(since, until) ==
    IF since # <<>> \/ until # <<>> THEN "logs" ELSE "statistics"

\* The text of the SELECT after SELECT {weapon} FROM.
QueryText(since, until) ==
    <<TableOf(since, until), "WHERE", "id", "=", "'id'">> \o DatePredicate(since, until)

\* One comparison of a WHERE clause as SQLite parses it.
IsPredicate(ts) ==
    \/ Len(ts) = 3 /\ ts[2] \in {"=", "<="}
    \/ Len(ts) = 5 /\ ts[2] = "BETWEEN" /\ ts[4] = "AND"

\* A WHERE clause is one comparison, or comparisons joined by AND; two
\* comparisons that merely follow each other are a syntax error.
RECURSIVE WhereParses(_)
WhereParses(ts) ==
    \/ IsPredicate(ts)
    \/ \E n \in {3, 5} :
         /\ n + 1 < Len(ts)
         /\ IsPredicate(SubSeq(ts, 1, n))
         /\ ts[n + 1] = "AND"
         /\ WhereParses(SubSeq(ts, n + 2, Len(ts)))

\* conn.iterate(&query, ..) prepares the statement: Err on a syntax error.
Prepares(text) == WhereParses(SubSeq(text, 3, Len(text)))

\* The result of the closure of query.
Queried(stats, text) == [ok |-> TRUE, chain |-> <<>>, list |-> stats, text |-> text]
NotQueried(chain, text) == [ok |-> FALSE, chain |-> chain, list |-> <<>>, text |-> text]

\* query: the closure run with the connection.  weapon, since and until
\* are <<>> for None; rows is the number of rows of the table that match
\* the id, each with a count in every column.
QueryClosure(weapon, since, until, rows) ==
    LET columns == IF weapon = <<>>
                   THEN [ok |-> TRUE, chain |-> <<>>, list |-> WeaponColumns]
                   ELSE ValidWeaponColumns(weapon)
        text == QueryText(since, until)
    IN  IF ~columns.ok THEN NotQueried(columns.chain, <<>>)
        ELSE IF since # <<>> /\ ~ParsesAsRfc3339(since[1]) THEN NotQueried(<<"InvalidDate">>, <<>>)
        ELSE IF until # <<>> /\ ~ParsesAsRfc3339(until[1]) THEN NotQueried(<<"InvalidDate">>, <<>>)
        ELSE IF ~Prepares(text) THEN NotQueried(<<"context", "FailedToAggregate">>, text)
        ELSE Queried(IF rows = 0 THEN <<>> ELSE columns.list, text)

\* The value stored under the key among the string options, <<>> for None.
QueryOption(fs, key) ==
    IF StringPositions(fs, key) = {} THEN <<>>
    ELSE <<fs[Greatest(StringPositions(fs, key))].text>>

\* Most rows of one user given to a query.
MaxRows == 1

\* Queries: no filter or a filter of one or two columns, since and until
\* absent or one of the dates, no row or some.
QueryInputs(op) ==
    {Input(op, weapon, rows, 0, since \o until, NoInput.cfg) :
        weapon \in {<<>>, <<"bow">>, <<"bow", " lance">>, <<"katana">>},
        rows \in 0..MaxRows,
        since \in {<<>>} \cup {<<StringField("since", d)>> : d \in DateTexts},
        until \in {<<>>} \cup {<<StringField("until", d)>> : d \in DateTexts}}

\* The closure of query applied with the connection held.
QueryRun ==
    /\ pin.op = "query"
    /\ LET r == QueryClosure(pin.toks, QueryOption(pin.fields, "since"),
                             QueryOption(pin.fields, "until"), pin.lower)
       IN  Returns("query",
                   Output(2, r.ok, IF r.ok THEN "none" ELSE r.chain[Len(r.chain)],
                          r.list, NoCall, IF r.ok THEN "" ELSE Triage(r.chain),
                          pin.cfg, r.text))

\* err.triage().unwrap_or(TriageTag::NotBad): the tag of the Msg::Issue a
\* failed interaction sends.
IssueTag(chain) == IF Triage(chain) = "None" THEN "NotBad" ELSE Triage(chain)

\* An escalation of Immediate issues only.
EscalatesImmediate(tag) == tag = "Immediate"

\* main: match tag { Immediate | Delayed => send the issue, _ => {} }
Escalates(tag) == tag \in {"Immediate", "Delayed"}

\* interaction_create, the Err arm: the error is answered to the user and a
\* Msg::Issue with its tag is sent to the channel main receives from
\* (CENTRAL in global.rs, named SRX in main.rs).  list is the channel.
InteractionFailed ==
    /\ pin.op = "report"
    /\ Returns("report",
               Output(1, FALSE, pin.toks[Len(pin.toks)], <<IssueTag(pin.toks)>>,
                      NoCall, IssueTag(pin.toks), pin.cfg, <<>>))

\* main, while let Some(msg) = rx.recv().await: a Msg::Issue is logged and,
\* for the escalated tags, sent on as an issue of the repository.  msg holds
\* what main did with it.
MainReceives ==
    /\ pin.op = "report"
    /\ pout.phase = 1
    /\ pout.list # <<>>
    /\ pout' = [pout EXCEPT !.phase = 2,
                            !.list = Tail(pout.list),
                            !.msg = IF Escalates(Head(pout.list))
                                    THEN <<"log::error", "github issue">>
                                    ELSE <<"log::error">>]
    /\ UNCHANGED <<pin, botVars>>

\* Longest argument text of the quest choice.
MaxArgLen == 5

\* Characters an argument text is made of.
ArgAlphabet == {"1", "0", "-", "x", " "}

\* str::split_whitespace: the maximal runs of characters other than space.
RECURSIVE SplitWhitespace(_)
SplitWhitespace(cs) ==
    IF cs = <<>> THEN <<>>
    ELSE IF Head(cs) = " " THEN SplitWhitespace(Tail(cs))
    ELSE LET stop == IF \E i \in 1..Len(cs) : cs[i] = " "
                     THEN CHOOSE i \in 1..Len(cs) :
                              cs[i] = " " /\ \A j \in 1..(i - 1) : cs[j] # " "
                     ELSE Len(cs) + 1
         IN  <<SubSeq(cs, 1, stop - 1)>> \o SplitWhitespace(SubSeq(cs, stop, Len(cs)))

\* filter_map(!QUEST_ID_REGEX.is_match(..)): the tokens without a match.
InvalidQuestArgs(tokens) == SelectSeq(tokens, LAMBDA t : ~IsMatch(t))

\* Vec<String>::join(", ")
RECURSIVE Join(_)
Join(tokens) ==
    IF tokens = <<>> THEN <<>>
    ELSE IF Len(tokens) = 1 THEN tokens[1]
    ELSE tokens[1] \o <<",", " ">> \o Join(Tail(tokens))

\* validate_for::<QuestID>: all(is_match) turned into Validated or into
\* InvalidArgument { arg } with the joined tokens that did not match.
QuestValidateFor(tokens) ==
    IF \A i \in 1..Len(tokens) : IsMatch(tokens[i])
    THEN [ok |-> TRUE, arg |-> <<>>]
    ELSE [ok |-> FALSE, arg |-> Join(InvalidQuestArgs(tokens))]

\* Validated<QuestID>::parse: one QuestID(rank, number) per accepted token.
QuestParse(tokens) == [i \in 1..Len(tokens) |-> ParseQuestID(tokens[i])]

\* The argument texts of the quest choice.
QuestInputs(op) ==
    {Input(op, cs, 0, 0, <<>>, NoInput.cfg) : cs \in SeqsUpTo(ArgAlphabet, MaxArgLen)}

\* split_whitespace().validate_for::<QuestID>()?.parse()? of smart_cast:
\* list is the parsed Vec<QuestID>, msg the payload of InvalidArgument.
QuestCast ==
    /\ pin.op = "quest_cast"
    /\ LET tokens == SplitWhitespace(pin.toks)
           v == QuestValidateFor(tokens)
       IN  Returns("quest_cast",
                   IF v.ok
                   THEN Output(2, TRUE, "none", QuestParse(tokens), NoCall, "None",
                               pin.cfg, <<>>)
                   ELSE Output(2, FALSE, "InvalidArgument", <<>>, NoCall, "NotBad",
                               pin.cfg, v.arg))

\* Arguments of exclude / target for a choice: none, one or two items, an
\* item the list holds, one it does not hold, and an invalid one.
ItemArgs(choice) ==
    CASE choice = "quest" -> {<<>>, <<"4-1">>, <<"4-1", "9-1">>, <<"1-3">>, <<"x">>,
                              <<"9-1", "x4-1">>, <<"9-1", "x">>, <<"4-12">>}
      [] choice = "monster" -> {<<"オサイズチ">>, <<"great_izuchi">>,
                                 <<"オサイズチ", "x">>}
      [] choice = "weapon" -> {<<>>, <<"bow">>, <<"bow", "lance">>, <<"hammer">>,
                                <<"katana">>}

\* Items a list of the choice holds before the call.
ItemsBefore(choice) ==
    CASE choice = "quest" -> {{}, {<<4, 1>>}, {<<4, 1>>, <<7, 2>>}}
      [] choice = "monster" -> {{}, {"great_izuchi"}}
      [] choice = "weapon" -> {{}, {"bow"}, {"bow", "hammer"}}

\* A Config whose two lists hold items for every choice.
ConfigBefore(choice, excluded, target) ==
    [NoInput.cfg EXCEPT
        !.excluded = [ch \in Choices |->
                        IF ch = choice THEN excluded
                        ELSE IF ch = "quest" THEN {<<5, 1>>} ELSE {"lance"}],
        !.target = [ch \in Choices |->
                      IF ch = choice THEN target
                      ELSE IF ch = "quest" THEN {<<6, 1>>} ELSE {"gunlance"}]]

\* The calls settings dispatches to exclude and to target.
MutateInputs(op) ==
    UNION {{Input(op, arg, 0, 0,
                  <<SubCommandField(kind), StringField("option", opt),
                    StringField("choice", choice)>>,
                  ConfigBefore(choice, excluded, target)) :
               kind \in {"exclude", "target"}, opt \in Options,
               arg \in ItemArgs(choice), excluded \in ItemsBefore(choice),
               target \in ItemsBefore(choice)} : choice \in Choices}

\* settings: Exclude(opt, choice, arg) => exclude(..), Target(..) => target(..)
Mutate ==
    /\ pin.op = "mutate"
    /\ LET cmd == Cmd(pin.fields[1].text, pin.fields[2].text, pin.fields[3].text,
                      pin.toks, {}, 0, 0)
       IN  \E r \in IF cmd.kind = "exclude" THEN ExcludeOutcomes(cmd, pin.cfg)
                                             ELSE TargetOutcomes(cmd, pin.cfg) :
             Returns("mutate",
                     Output(2, r.ok, IF r.ok THEN "none" ELSE r.chain[Len(r.chain)],
                            r.chain, r.cmd, IF r.ok THEN "" ELSE Triage(r.chain),
                            r.cfg, r.msg))

\* The result of the Quest arm of generate_impl.
Picked(rank) == [ok |-> TRUE, err |-> "none", rank |-> <<rank>>]
NotPicked(err) == [ok |-> FALSE, err |-> err, rank |-> <<>>]

\* generate_impl, GenerateType::Quest: QUESTS[lower..upper] panics when the
\* slice is out of range; choose() takes a rank of the slice, and the
\* choose() on its quests gives None when the rank has none.
PickQuest(lower, upper) ==
    IF ~SliceOk(lower, upper) THEN {NotPicked("panic")}
    ELSE {IF QuestsLen(rank) = 0 THEN NotPicked("FailedToChoose") ELSE Picked(rank) :
             rank \in PickableRanks(TRUE, lower, upper)}

\* The ranges stored when generate quest is called.
PickInputs(op) ==
    {Input(op, <<>>, lower, upper, <<>>,
           [NoInput.cfg EXCEPT !.range = [lower |-> lower, upper |-> upper]]) :
        lower \in 0..QuestRanks, upper \in 0..QuestRanks}

\* generate quest with the stored range; list holds the rank of the quest.
GenerateQuest ==
    /\ pin.op = "generate_quest"
    /\ \E r \in PickQuest(pin.cfg.range.lower, pin.cfg.range.upper) :
         Returns("generate_quest",
                 Output(2, r.ok, r.err, r.rank, NoCall, "", pin.cfg, <<>>))

\* Most (user, weapon) pairs of one roll given to store.
MaxRoll == 2

\* The rolls: one weapon for each of up to MaxRoll different members.
RollInputs(op) ==
    {Input(op, data, 0, 0, <<>>, NoInput.cfg) :
        data \in {d \in SeqsUpTo(Users \X {"bow", "lance"}, MaxRoll) :
                     \A i, j \in 1..Len(d) : i # j => d[i][1] # d[j][1]}}

\* execute(kind, conn, data): one conn.execute per pair, in order, the
\* first failing statement ending the loop.  done is the number of
\* statements that succeeded; every one of them is committed on its own.
Executed(data, done) == SubSeq(data, 1, done)

\* store(data): execute(InsertIntoLogs) and then execute(UpsetStatistics),
\* each statement succeeding or failing; logs and stats are the rows
\* inserted and the counters incremented when store returns.
StoreOutcomes(data) ==
    LET n == Len(data)
    IN  {[ok |-> TRUE, err |-> "none", logs |-> data, stats |-> data]}
          \cup {[ok |-> FALSE, err |-> "FailedToStore",
                 logs |-> Executed(data, done), stats |-> <<>>] : done \in 0..(n - 1)}
          \cup {[ok |-> FALSE, err |-> "FailedToStore",
                 logs |-> data, stats |-> Executed(data, done)] : done \in 0..(n - 1)}

\* store applied to a roll: list holds the new logs rows, msg the
\* statistics increments.
Store ==
    /\ pin.op = "store"
    /\ \E r \in StoreOutcomes(pin.toks) :
         Returns("store",
                 Output(2, r.ok, r.err, r.logs, NoCall,
                        IF r.ok THEN "" ELSE "Delayed", pin.cfg, r.stats))

\* The arguments given to smart_cast for each choice.
CastInputs(op) ==
    UNION {{Input(op, arg, 0, 0, <<StringField("choice", choice)>>, NoInput.cfg) :
               arg \in ItemArgs(choice)} : choice \in Choices}

\* arg.smart_cast::<T>() for the T of the choice: validate_for, then parse.
\* err is InvalidArgument when validate_for rejects, ParseFailed when parse
\* fails on an accepted token.
SmartCastRun ==
    /\ pin.op = "smart_cast"
    /\ LET r == SmartCast(pin.fields[1].text, pin.toks)
       IN  Returns("smart_cast",
                   Output(2, r.err = "none", r.err, <<>>, NoCall,
                          IF r.err = "InvalidArgument" THEN "NotBad" ELSE "None",
                          pin.cfg, <<>>))

\* The Config a roll is made with: one or two members, no weapon or one
\* weapon excluded.
RegulationInputs(op) ==
    {Input(op, <<>>, 0, 0, <<>>,
           [NoInput.cfg EXCEPT !.members = members, !.excluded["weapon"] = excluded]) :
        members \in {{"u1"}, {"u1", "u2"}}, excluded \in {{}, {"bow"}}}

\* generate_impl: zip(members, Uniform::new(0, weapons.len()).sample_iter()
\* .map(|idx| weapons[idx])) with weapons = Weapon::iter().collect(): each
\* chosen member, in the order the HashSet yields them, with any weapon of
\* the enum.
Regulations(cfg) ==
    {d \in [1..Cardinality(cfg.members) -> cfg.members \X WeaponKeys] :
        \A i, j \in 1..Len(d) : i # j => d[i][1] # d[j][1]}

\* The roll of generate; list holds the (member, weapon) pairs.
Regulate ==
    /\ pin.op = "regulations"
    /\ \E d \in Regulations(pin.cfg) :
         Returns("regulations", Output(2, TRUE, "none", d, NoCall, "", pin.cfg, <<>>))

Inputs ==
    WeaponInputs("validate_weapon")
      \cup ChainInputs("triage")
      \cup FieldInputs("assemble_settings", SettingsHeads, SettingsOptions)
      \cup FieldInputs("assemble_statistics", StatisticsHeads, StatisticsOptions)
      \cup FieldInputs("endpoint", EndpointHeads, EndpointOptions)
      \cup CommandInputs("translate_commands")
      \cup ColumnInputs("valid_weapon")
      \cup ExcludeInputs("exclude_add_remove")
      \cup QueryInputs("query")
      \cup ChainInputs("report")
      \cup QuestInputs("quest_cast")
      \cup MutateInputs("mutate")
      \cup PickInputs("generate_quest")
      \cup RollInputs("store")
      \cup CastInputs("smart_cast")
      \cup RegulationInputs("regulations")
      \cup RangeInputs("range_store")

FunInit ==
    /\ Idle
    /\ pin \in Inputs
    /\ pout = NoOutput

FunNext ==
    \/ ValidateWeapon
    \/ TranslateSettings
    \/ TranslateStatistics
    \/ Endpoint
    \/ TranslateCommand
    \/ ValidWeaponFilter
    \/ ExcludeAdd
    \/ ExcludeRemove
    \/ QueryRun
    \/ InteractionFailed
    \/ MainReceives
    \/ QuestCast
    \/ Mutate
    \/ GenerateQuest
    \/ Store
    \/ SmartCastRun
    \/ Regulate
    \/ TriageChain
    \/ RangeStore

FunSpec == FunInit /\ [][FunNext]_vars

\* ------------------------------------------------------------------------
\* Properties of the coordinator
\* ------------------------------------------------------------------------

\* The errors a body can end with.
DomainErrors ==
    {"InvalidArgument", "ParseFailed", "FailedToStore", "InvalidWeapon",
     "FailedToAggregate"}

\* The worker of c is between acquiring and releasing the Config lock.
WorkerInConfigBody(c) ==
    /\ Kind(c) \in ConfigKinds
    /\ wpc[c] \notin {"none", "poll", "exit"}

\* The handler of c is between acquiring and releasing the Config lock
\* (generate keeps the guard while it stores).
CallerInConfigBody(c) ==
    /\ Kind(c) = "generate"
    /\ cpc[c] \in {"wait_begin", "waiting"}

\* The worker of c is between acquiring and releasing the connection.
WorkerInConnBody(c) ==
    \/ Kind(c) \in ConnKinds /\ wpc[c] \notin {"none", "poll", "exit"}
    \/ Kind(c) = "members" /\ wpc[c] \in {"mb_sql", "mb_relock"}
    \/ Kind(c) = "members" /\ wpc[c] = "stuck" /\ connHolder = Worker(c)

\* C1: in every worker-based executor a domain error of the body makes the
\* worker set the status to ExitFailure and notify, and the caller returns
\* that error: never TimeLimitExceeded, never a success.
C1_DomainErrorReported ==
    \A c \in Calls :
        (wpc[c] = "exit" /\ wres[c] \in DomainErrors) =>
            /\ status[c] = "ExitFailure"
            /\ notified[c] >= 1
            /\ result[c] \in {"none", wres[c]}

\* C2: once the timeout has expired with the status still Pending, the
\* caller returns TimeLimitExceeded without waiting for the worker: the
\* worker is not holding the status mutex the caller has to re-acquire.
C2_TimeoutReturnsWithoutWorker ==
    \A c \in Calls :
        (cpc[c] = "waiting" /\ expired[c] /\ status[c] = "Pending") =>
            statusHolder[c] # Worker(c)

\* C3: at most one thread is inside a body on Config and at most one inside
\* a body on the connection, the worker of a timed-out call included.
C3_BodiesExclusive ==
    /\ Cardinality({c \in Calls : WorkerInConfigBody(c)}
                   \cup {Caller(c) : c \in {d \in Calls : CallerInConfigBody(d)}}) <= 1
    /\ Cardinality({c \in Calls : WorkerInConnBody(c)}) <= 1

\* C3 witness: a worker is inside a Config body while the worker of a call
\* that timed out is still polling for the same lock.
C3_Witness ==
    \E c, d \in Calls :
        /\ c # d
        /\ WorkerInConfigBody(c)
        /\ Kind(d) \in ConfigKinds
        /\ wpc[d] = "poll"
        /\ result[d] = "TimeLimitExceeded"

\* The in-memory Config cfg reflects the mutation the call of c asked for.
Reflects(c, cfg) ==
    LET k == call[c]
        items == SmartCast(k.choice, k.arg).set
    IN  CASE k.kind = "range" ->
               cfg.range = [lower |-> k.lower, upper |-> k.upper]
          [] k.kind = "obliterate" ->
               cfg.target[k.choice] = {} /\ cfg.excluded[k.choice] = {}
          [] k.kind \in {"exclude", "target"} ->
               CASE k.opt = "set" -> cfg[ListOf(k.kind)][k.choice] = items
                 [] k.opt = "add" -> items \subseteq cfg[ListOf(k.kind)][k.choice]
                 [] OTHER -> items \cap cfg[ListOf(k.kind)][k.choice] = {}
          [] k.kind = "members" ->
               CASE k.opt = "set" -> cfg.members = k.users
                 [] k.opt = "add" -> k.users \subseteq cfg.members
                 [] OTHER -> k.users \cap cfg.members = {}
          [] OTHER -> TRUE

\* C4: a settings call never reports Success while the in-memory state is
\* unchanged: at the step that sets a status to ExitSuccess the Config
\* already reflects the mutation, a caller returns success only for a
\* status of ExitSuccess, and a call whose worker never got the Config lock
\* before the timeout ends with TimeLimitExceeded, not with success.
C4_SuccessMeansApplied ==
    /\ [][\A c \in Calls :
             (Kind(c) \in ConfigKinds /\ status[c] = "Pending"
                /\ status'[c] = "ExitSuccess") => Reflects(c, config')]_vars
    /\ [](\A c \in Calls :
             (Kind(c) \in ConfigKinds /\ result[c] = "Ok") =>
                 status[c] = "ExitSuccess")
    /\ [](\A c \in Calls :
             (Kind(c) \in ConfigKinds /\ cpc[c] = "done" /\ wpc[c] = "poll") =>
                 result[c] = "TimeLimitExceeded")

\* C4 witness: one call returned success with its range stored in Config,
\* and another, whose worker never got the lock, timed out.
C4_Witness ==
    \E c, d \in Calls :
        /\ Kind(c) = "range" /\ result[c] = "Ok" /\ status[c] = "ExitSuccess"
        /\ config.range # [lower |-> 4, upper |-> 8]
        /\ Reflects(c, config)
        /\ Kind(d) \in ConfigKinds /\ wpc[d] = "poll"
        /\ result[d] = "TimeLimitExceeded"

\* Nothing is in flight: every handler has returned and every worker ended.
Quiescent ==
    \A c \in Calls : cpc[c] \in {"idle", "done"} /\ wpc[c] \in {"none", "exit"}

\* C5: after a settings mutation has returned success, the configuration
\* file, when reloaded, equals the in-memory Config exactly, in every
\* interleaving of concurrent mutations and workers.  Stated for the states
\* in which no handler and no worker is in flight any more, where a
\* difference can no longer be the unfinished work of another call.
C5_FileEqualsConfig ==
    (Quiescent /\ \E c \in Calls : Kind(c) \in ConfigKinds /\ result[c] = "Ok") =>
        FromStr(file) = [ok |-> TRUE, config |-> config]

\* C6: within one settings mutation the update comes first, then the
\* persist of the file, and only then the signal: the status of a settings
\* call never leaves Pending before the file has been written.
C6_PersistBeforeSignal ==
    \A c \in Calls :
        (Kind(c) \in ConfigKinds /\ status[c] # "Pending") => persisted[c]

\* The worker of c is blocked in Mutex::lock on the connection.
WorkerBlockedOnConn(c) ==
    wpc[c] = "mb_lock_conn" /\ ~LockReturns(connHolder)

\* C7: the Config mutex and the connection mutex are acquired by workers
\* only through try-lock polling: no worker is ever blocked acquiring one.
C7_NoBlockingAcquisition ==
    \A c \in Calls : ~WorkerBlockedOnConn(c)

\* C8: a caller that returned TimeLimitExceeded has not cancelled its
\* worker: the worker is still polling, and whenever the lock it polls for
\* can be taken, its next try_lock takes it and starts the body.
C8_AbandonedWorkerGoesOn ==
    \A c \in Calls :
        (result[c] = "TimeLimitExceeded" /\ wpc[c] = "poll") =>
            /\ (Kind(c) \in ConfigKinds /\ TryLockOk(configHolder, configPoisoned))
                  => ENABLED WorkerTryLockConfig(c)
            /\ (Kind(c) \in ConnKinds /\ TryLockOk(connHolder, connPoisoned))
                  => ENABLED WorkerTryLockConn(c)

\* C8 witness: the call reported a timeout and its worker has since
\* applied the mutation to Config and ended.
C8_Witness ==
    \E c \in Calls :
        /\ result[c] = "TimeLimitExceeded"
        /\ abandoned[c]
        /\ Kind(c) = "range"
        /\ wpc[c] = "exit"
        /\ config.range = [lower |-> call[c].lower, upper |-> call[c].upper]
        /\ config.range # [lower |-> 4, upper |-> 8]

\* C9: a worker whose body has completed, with success or with a domain
\* error, has changed the status from Pending and notified exactly once.
C9_SignalledExactlyOnce ==
    \A c \in Calls :
        (wpc[c] = "exit" /\ wres[c] \in {"Ok"} \cup DomainErrors) =>
            (status[c] # "Pending" /\ notified[c] = 1)

\* C10: no reader of Config (info, generate, sync_all, the response of
\* range and members) has read it while a body was partly applied.
C10_NoPartialRead == ~sawPartial

\* C10 witness: an obliterate has done the first of its two clears, or a
\* loop some of its items, while a handler stands at a read of Config.
C10_Witness ==
    \E c, d \in Calls :
        /\ c # d
        /\ MidBody(c)
        /\ cpc[d] \in {"info", "gen_lock", "sync_write", "respond"}

\* ------------------------------------------------------------------------
\* Properties of the functions
\* ------------------------------------------------------------------------

\* C11: validate_for<Weapon> accepts exactly when every token is a weapon
\* key; when it rejects, the error lists the invalid tokens, all of them
\* and in their original order.
C11_WeaponValidation ==
    (pin.op = "validate_weapon" /\ pout.phase = 2) =>
        /\ pout.ok <=> \A i \in 1..Len(pin.toks) : pin.toks[i] \in WeaponKeys
        /\ ~pout.ok =>
              /\ pout.err = "InvalidArgument"
              /\ pout.list = SelectSeq(pin.toks, LAMBDA t : t \notin WeaponKeys)

\* C11 witness: a rejection whose first token is valid and which lists two
\* invalid tokens.
C11_Witness ==
    /\ pin.op = "validate_weapon" /\ pout.phase = 2 /\ ~pout.ok
    /\ pin.toks[1] \in WeaponKeys
    /\ Len(pout.list) = 2
    /\ pout.list[1] # pout.list[2]

\* C12: for lower > upper a successful range mutation stores exactly the
\* submitted values: nothing is clamped, swapped or rejected, and nothing
\* else of Config changes.
C12_RangeStoredAsSubmitted ==
    (pin.op = "range_store" /\ pout.phase = 2 /\ pin.lower > pin.upper) =>
        /\ pout.ok
        /\ pout.cfg.range = [lower |-> pin.lower, upper |-> pin.upper]
        /\ pout.cfg = [pin.cfg EXCEPT !.range = pout.cfg.range]

\* C12 witness: an inverted range has been stored.
C12_Witness ==
    /\ pin.op = "range_store" /\ pout.phase = 2
    /\ pin.lower = 6 /\ pin.upper = 4
    /\ pout.cfg.range.lower > pout.cfg.range.upper

\* C13: in every reachable state Config.settings.range satisfies
\* lower <= upper, with both bounds in the quest-rank domain 0..8.
C13_RangeWellFormed ==
    /\ config.range.lower <= config.range.upper
    /\ config.range.lower \in 0..(QuestRanks - 1)
    /\ config.range.upper \in 0..(QuestRanks - 1)

\* Severity of a tag: Immediate over Delayed over Minor over NotBad.
Severity(tag) ==
    CASE tag = "Immediate" -> 4
      [] tag = "Delayed" -> 3
      [] tag = "Minor" -> 2
      [] tag = "NotBad" -> 1
      [] OTHER -> 0

\* C14: triage() returns the most severe tag found anywhere in the chain,
\* whatever its position; untyped causes do not change the result.
C14_MostSevereTag ==
    (pin.op = "triage" /\ pout.phase = 2) =>
        \A i \in 1..Len(pin.toks) :
            Severity(TagOf(pin.toks[i])) <= Severity(pout.tag)

\* The shapes the settings assembler knows: a sub-command marker first, a
\* known name, and the number of fields of that name.
SettingsShape(fs) ==
    /\ Len(fs) >= 1
    /\ fs[1].marker = "sub_command"
    /\ \/ fs[1].text \in {"info", "obliterate"} /\ Len(fs) = 2
       \/ fs[1].text = "members" /\ Len(fs) >= 2
       \/ fs[1].text = "range" /\ Len(fs) = 3
       \/ fs[1].text \in {"exclude", "target"} /\ Len(fs) = 4

\* The fields of a settings shape all translate to what the shape asks.
SettingsTranslatable(fs) ==
    /\ fs[1].text = "info" => TranslateToAbout(fs[2]).ok
    /\ fs[1].text = "obliterate" => TranslateToChoices(fs[2]).ok
    /\ fs[1].text = "members" => TranslateToOptions(fs[2]).ok
    /\ fs[1].text = "range" => TranslateToI64(fs[2]).ok /\ TranslateToI64(fs[3]).ok
    /\ fs[1].text \in {"exclude", "target"} =>
         /\ TranslateToOptions(fs[2]).ok
         /\ TranslateToChoices(fs[3]).ok
         /\ TranslateToString(fs[4]).ok

\* The shapes the statistics assembler knows.
StatisticsShape(fs) ==
    /\ Len(fs) >= 1
    /\ fs[1].marker = "sub_command"
    /\ \/ fs[1].text = "help" /\ Len(fs) = 1
       \/ fs[1].text = "query"

\* A query needs a field that translates to a User.
StatisticsTranslatable(fs) ==
    fs[1].text = "query" => \E i \in 2..Len(fs) : TranslateToUser(fs[i]).ok

\* C16: the settings and the statistics assembler return
\* LogicError::UnreachableGuard for every field sequence that matches no
\* known shape (no sub-command marker first, unknown name, wrong number of
\* fields), and the typed sub-command of the name for every sequence that
\* matches a shape and whose fields translate.
C16_AssemblerShapes ==
    /\ (pin.op = "assemble_settings" /\ pout.phase = 2) =>
         /\ ~SettingsShape(pin.fields) =>
              ~pout.ok /\ pout.err = "UnreachableGuard"
         /\ (SettingsShape(pin.fields) /\ SettingsTranslatable(pin.fields)) =>
              pout.ok /\ pout.cmd.kind = pin.fields[1].text
    /\ (pin.op = "assemble_statistics" /\ pout.phase = 2) =>
         /\ ~StatisticsShape(pin.fields) =>
              ~pout.ok /\ pout.err = "UnreachableGuard"
         /\ (StatisticsShape(pin.fields) /\ StatisticsTranslatable(pin.fields)) =>
              pout.ok /\ pout.cmd.kind = pin.fields[1].text

\* The range sub-command followed by three options has been refused as
\* matching no shape.
C16_Witness ==
    /\ pin.op = "assemble_settings"
    /\ pout.phase = 2
    /\ pin.fields = <<SubCommandField("range"), StringField("option", "3"),
                      IntegerField("option", 6), StringField("option", "3")>>
    /\ pout.err = "UnreachableGuard"

\* The first field of the interaction is no known top-level command.
UnknownCommand(fs) ==
    /\ Len(fs) >= 1
    /\ ~(fs[1].marker = "command"
           /\ fs[1].text \in {"settings", "generate", "statistics", "version"})

\* C15: when the first field of an interaction does not translate to a
\* known top-level command (unknown name, or not a command marker), the
\* dispatcher fails with LogicError::UnreachableGuard and the triage of the
\* error is Immediate.
C15_UnknownCommandIsUnreachableGuard ==
    (pin.op = "endpoint" /\ pout.phase = 2 /\ UnknownCommand(pin.fields)) =>
        /\ ~pout.ok
        /\ pout.err = "UnreachableGuard"
        /\ pout.tag = "Immediate"

\* [command "settings", sub_command "range", lower, upper] with two bounds
\* that translate to integers.
RangeInteraction(fs) ==
    /\ Len(fs) = 4
    /\ fs[1] = CommandField("settings")
    /\ fs[2] = SubCommandField("range")
    /\ TranslateToI64(fs[3]).ok
    /\ TranslateToI64(fs[4]).ok

\* The message shows the rank n: a star followed by the digits of n.
ShowsRank(msg, n) ==
    \E i \in 1..Len(msg) :
        /\ msg[i] = "star"
        /\ SubSeq(msg, i + 1, i + Len(UsizeToString(n))) = UsizeToString(n)

IsCommand(f, name) == f.marker = "command" /\ f.text = name

\* C20: translate_to<Commands> returns Settings, Generate, Statistics or
\* Version exactly for a command marker named "settings", "generate",
\* "statistics" or "version"; every other name and every field that is not
\* a command marker yields a translation error.
C20_CommandsTranslation ==
    (pin.op = "translate_commands" /\ pout.phase = 2) =>
        LET f == pin.fields[1]
        IN  /\ IsCommand(f, "settings") <=> (pout.ok /\ pout.msg = <<"Settings">>)
            /\ IsCommand(f, "generate") <=> (pout.ok /\ pout.msg = <<"Generate">>)
            /\ IsCommand(f, "statistics") <=> (pout.ok /\ pout.msg = <<"Statistics">>)
            /\ IsCommand(f, "version") <=> (pout.ok /\ pout.msg = <<"Version">>)
            /\ pout.ok \/ pout.err = "message"

\* The command marker "statistics" has been translated to Statistics.
C20_Witness ==
    /\ pin.op = "translate_commands"
    /\ pin.fields = <<CommandField("statistics")>>
    /\ pout.phase = 2
    /\ pout.ok
    /\ pout.msg = <<"Statistics">>

\* C17: when the weapon filter of a statistics query holds several invalid
\* keys, the InvalidWeapon error names all of them, in their order, not
\* only the first one.
C17_AllInvalidKeysNamed ==
    (pin.op = "valid_weapon" /\ pout.phase = 2 /\ ~pout.ok) =>
        /\ pout.err = "InvalidWeapon"
        /\ pout.list = SelectSeq([i \in 1..Len(pin.toks) |-> Trim(pin.toks[i])],
                                 LAMBDA column : column \notin WeaponKeys)

\* C18: for a weapon key w that is not in the excluded-weapon set, a
\* successful `exclude add weapon w` followed by a successful `exclude
\* remove weapon w` leaves the excluded-weapon set as it was before, and
\* every other part of Config unchanged.
C18_AddThenRemoveRestores ==
    (/\ pin.op = "exclude_add_remove"
     /\ pout.phase = 2
     /\ pout.ok
     /\ pin.toks[1] \notin pin.cfg.excluded["weapon"]) =>
        /\ pout.cfg.excluded["weapon"] = pin.cfg.excluded["weapon"]
        /\ pout.cfg = pin.cfg

\* "bow" has been added to {"lance"} and removed again, both calls
\* succeeding.
C18_Witness ==
    /\ pin.op = "exclude_add_remove"
    /\ pin.toks = <<"bow">>
    /\ pin.cfg.excluded["weapon"] = {"lance"}
    /\ pout.phase = 2
    /\ pout.ok
    /\ pout.cfg.excluded["weapon"] = {"lance"}

\* The query of the input carries a weapon filter valid_weapon accepts (or
\* none) and dates valid_date accepts (or none).
ValidQuery ==
    /\ pin.op = "query"
    /\ \A i \in 1..Len(pin.toks) : Trim(pin.toks[i]) \in WeaponKeys
    /\ \A i \in 1..Len(pin.fields) : ParsesAsRfc3339(pin.fields[i].text)

\* C21: a statistics query for a user with no matching rows completes with
\* Success and returns an empty list of per-weapon counts, not an error.
C21_NoRowsIsEmptySuccess ==
    (ValidQuery /\ pout.phase = 2 /\ pin.lower = 0) =>
        pout.ok /\ pout.list = <<>>

\* The query that was run read the table: the statement was prepared and
\* its rows were iterated.
Reads(table) == pout.ok /\ pout.msg[1] = table

\* C26: the statistics query reads the raw logs table if and only if at
\* least one of since / until is given, with an inclusive BETWEEN for both
\* bounds and a one-sided inequality for one; with neither bound there is
\* no date predicate and the pre-aggregated statistics table is read.
C26_DatePredicateChoosesTable ==
    (ValidQuery /\ pout.phase = 2) =>
        LET since == QueryOption(pin.fields, "since")
            until == QueryOption(pin.fields, "until")
            date == SubSeq(pout.msg, 6, Len(pout.msg))
        IN  /\ Reads("logs") <=> (since # <<>> \/ until # <<>>)
            /\ Reads("statistics") <=> (since = <<>> /\ until = <<>>)
            /\ (since # <<>> /\ until # <<>>) => (Len(date) = 5 /\ date[2] = "BETWEEN")
            /\ (since # <<>>) # (until # <<>>) => (Len(date) = 3 /\ date[2] = "<=")
            /\ (since = <<>> /\ until = <<>>) => date = <<>>

\* C22: every spawned worker eventually terminates, also when its caller
\* has given up; in particular the worker of a settings members call whose
\* upserts have all succeeded sets ExitSuccess and exits.
C22_WorkerTerminates ==
    \A c \in Calls :
        /\ (wpc[c] = "poll") ~> (wpc[c] = "exit")
        /\ (wpc[c] = "mb_relock") ~> (wpc[c] = "exit" /\ status[c] = "ExitSuccess")

\* The tag the taxonomy gives each typed error.
TaxonomyTag(error) ==
    CASE error \in {"InvalidWeapon", "InvalidDate", "InvalidArgument"} -> "NotBad"
      [] error = "FailedToStore" -> "Delayed"
      [] error \in {"FailedToAggregate", "UnreachableGuard", "TimeLimitExceeded",
                    "FailedToSync"} -> "Immediate"

\* The typed errors of a chain, in their order.
TypedOf(chain) == SelectSeq(chain, LAMBDA cause : cause # "context")

\* C23: each typed error has the triage tag of the taxonomy (InvalidWeapon,
\* InvalidDate and InvalidArgument NotBad, FailedToStore Delayed,
\* FailedToAggregate, every LogicError, TimeLimitExceeded and FailedToSync
\* Immediate), alone or wrapped in context.
C23_TaxonomyTags ==
    (pin.op = "triage" /\ pout.phase = 2 /\ Len(TypedOf(pin.toks)) = 1) =>
        pout.tag = TaxonomyTag(TypedOf(pin.toks)[1])

\* FailedToStore wrapped in a context has been triaged as Delayed.
C23_Witness ==
    /\ pin.op = "triage"
    /\ pin.toks = <<"context", "FailedToStore">>
    /\ pout.phase = 2
    /\ pout.tag = "Delayed"

\* What main did with the issue includes the step.
MainDid(step) == \E i \in 1..Len(pout.msg) : pout.msg[i] = step

\* C24: a failed interaction is escalated to the issue-reporting channel if
\* and only if the triage tag of its error is Immediate or Delayed; errors
\* tagged Minor or NotBad, and errors with no typed error in their chain
\* (reported as NotBad), are only logged.
C24_EscalatedIffImmediateOrDelayed ==
    (pin.op = "report" /\ pout.phase = 2) =>
        /\ MainDid("log::error")
        /\ MainDid("github issue") <=> Triage(pin.toks) \in {"Immediate", "Delayed"}
        /\ TypedOf(pin.toks) = <<>> =>
             pout.tag = "NotBad" /\ ~MainDid("github issue")

\* A failure by FailedToStore under a context has been logged and escalated.
C24_Witness ==
    /\ pin.op = "report"
    /\ pin.toks = <<"context", "FailedToStore">>
    /\ pout.phase = 2
    /\ pout.tag = "Delayed"
    /\ MainDid("github issue")

\* The worker of c is inside the body it runs under the mutex.
InBody(c) == wpc[c] \notin {"none", "poll", "exit"}

\* C25: within one call the mutation body runs at most once: the worker
\* enters the body only from its polling loop, and once it has left the
\* polling loop it never polls again, whether the body succeeds or fails;
\* polling starts only with a new call.
C25_BodyAtMostOnce ==
    [][\A c \in Calls :
         /\ (InBody(c)' /\ ~InBody(c)) => (wpc[c] = "poll" /\ wpc'[c] = BodyStart(Kind(c)))
         /\ (wpc[c] # "poll" /\ wpc'[c] = "poll") =>
               (wpc[c] = "none" /\ cpc[c] \in {"idle", "gen_lock"})
         /\ (InBody(c) /\ ~InBody(c)') => wpc'[c] = "exit"]_vars

\* An exclude worker whose body failed has ended, and a store worker whose
\* statement failed has ended.
C25_Witness ==
    /\ \E c \in Calls : /\ Kind(c) = "exclude"
                        /\ wpc[c] = "exit"
                        /\ wres[c] \notin {"none", "Ok"}
    /\ \E c \in Calls : /\ Kind(c) = "generate"
                        /\ wpc[c] = "exit"
                        /\ wres[c] = "FailedToStore"

\* A token of the shape rank-index: a digit 1..9, a hyphen, one or more digits.
IsRankIndex(tok) ==
    /\ Len(tok) >= 3
    /\ tok[1] \in Digits \ {"0"}
    /\ tok[2] = "-"
    /\ \A k \in 3..Len(tok) : tok[k] \in Digits

\* The number a run of decimal digits denotes.
RECURSIVE Decimal(_)
Decimal(ds) ==
    IF ds = <<>> THEN 0
    ELSE 10 * Decimal(SubSeq(ds, 1, Len(ds) - 1)) + DigitVal(ds[Len(ds)])

\* C27: for every accepted token rank-index, parsing yields the QuestID of
\* exactly the numeric rank and the numeric index, indices of two or more
\* digits included.
C27_ParseKeepsRankAndIndex ==
    (pin.op = "quest_cast" /\ pout.phase = 2 /\ pout.ok) =>
        LET tokens == SplitWhitespace(pin.toks)
        IN  /\ Len(pout.list) = Len(tokens)
            /\ \A i \in 1..Len(tokens) :
                 IsRankIndex(tokens[i]) =>
                     pout.list[i] = <<DigitVal(tokens[i][1]),
                                      Decimal(SubSeq(tokens[i], 3, Len(tokens[i])))>>

\* C28: validate_for of quests accepts exactly when every whole token has
\* the shape rank-index; a token that only contains such a substring is
\* rejected, and the payload of InvalidArgument lists the rejected tokens.
C28_WholeTokenAccepted ==
    (pin.op = "quest_cast" /\ pout.phase = 2) =>
        LET tokens == SplitWhitespace(pin.toks)
            rejected == SelectSeq(tokens, LAMBDA t : ~IsRankIndex(t))
        IN  /\ pout.ok <=> rejected = <<>>
            /\ ~pout.ok => (pout.err = "InvalidArgument" /\ pout.msg = Join(rejected))

\* The list an executor of the two writes, and the one it leaves alone.
OtherList(list) == IF list = "excluded" THEN "target" ELSE "excluded"

\* C29: after a successful exclude (target) with option opt, choice c and
\* validated set A, the excluded (target) set of c is A for set, old \cup A
\* for add and old \ A for remove; the sets of the other choices, the other
\* list, the range and the members are as before.
C29_MutationAndFrame ==
    (pin.op = "mutate" /\ pout.phase = 2 /\ pout.ok) =>
        LET opt == pin.fields[2].text
            c == pin.fields[3].text
            list == IF pin.fields[1].text = "exclude" THEN "excluded" ELSE "target"
            A == SmartCast(c, pin.toks).set
            old == pin.cfg
            new == pout.cfg
        IN  /\ new[list][c] = CASE opt = "set" -> A
                                [] opt = "add" -> old[list][c] \cup A
                                [] opt = "remove" -> old[list][c] \ A
            /\ \A ch \in Choices \ {c} : new[list][ch] = old[list][ch]
            /\ new[OtherList(list)] = old[OtherList(list)]
            /\ new.range = old.range
            /\ new.members = old.members

\* A target remove of a weapon the target list held has succeeded, the
\* excluded list holding the same weapon.
C29_Witness ==
    /\ pin.op = "mutate"
    /\ pout.phase = 2
    /\ pout.ok
    /\ pin.fields[1].text = "target"
    /\ pin.fields[2].text = "remove"
    /\ pin.fields[3].text = "weapon"
    /\ pin.toks = <<"bow">>
    /\ pin.cfg.target["weapon"] = {"bow", "hammer"}
    /\ pin.cfg.excluded["weapon"] = {"bow"}
    /\ pout.cfg.target["weapon"] = {"hammer"}

\* generate quest can answer with a quest of the rank.
CanPick(rank) == ENABLED (GenerateQuest /\ pout'.ok /\ pout'.list = <<rank>>)

\* C30: with a stored range lower <= upper, generate quest picks a quest of
\* a rank r with lower <= r <= upper; every rank of the closed range that
\* has quests can be picked, the upper bound included; and with
\* lower = upper on a rank that has quests the quest is of that rank.
C30_ClosedRange ==
    LET lower == pin.cfg.range.lower
        upper == pin.cfg.range.upper
    IN  (pin.op = "generate_quest" /\ lower <= upper) =>
          /\ (pout.phase = 2 /\ pout.ok) =>
                 (lower <= pout.list[1] /\ pout.list[1] <= upper)
          /\ pout.phase = 0 =>
                 \A r \in lower..upper : (r < QuestRanks /\ QuestsLen(r) > 0) => CanPick(r)
          /\ (pout.phase = 2 /\ lower = upper /\ lower < QuestRanks /\ QuestsLen(lower) > 0) =>
                 (pout.ok /\ pout.list = <<lower>>)

\* The thread holding a mutex has stopped for good inside lock(): the
\* members worker on the status mutex it holds itself.
HeldForever(holder) ==
    \E c \in Calls : holder = Worker(c) /\ wpc[c] = "stuck"

\* The worker of c waits in lock() for a mutex that is never released.
WorkerWaitsForever(c) ==
    \/ wpc[c] = "stuck" /\ HeldForever(statusHolder[c])
    \/ wpc[c] = "mb_lock_conn" /\ HeldForever(connHolder)

\* The caller of c waits in lock() for a mutex that is never released.
CallerWaitsForever(c) ==
    \/ cpc[c] \in {"info", "gen_lock"} /\ HeldForever(configHolder)
    \/ cpc[c] = "wait_begin" /\ HeldForever(statusHolder[c])

\* C31: no interleaving of the commands reaches a state in which a thread
\* waits forever for a mutex that is never released, a mutex the thread
\* holds itself included.
C31_NoThreadWaitsForever ==
    \A c \in Calls : ~WorkerWaitsForever(c) /\ ~CallerWaitsForever(c)

\* The caller of c is about to wait and the worker has already set the
\* terminal status and notified.
NotifiedBeforeWait(c) ==
    /\ cpc[c] = "wait_begin"
    /\ status[c] # "Pending"
    /\ notified[c] > 0
    /\ ~statusPoisoned[c]

\* C32: no wake-up is lost: when the worker has set the terminal status and
\* notified before the caller starts waiting, the caller sees the status
\* and goes on at once, without waiting for the timeout and without
\* TimeLimitExceeded; where it joins the worker it returns the worker's
\* result.
C32_NoLostWakeup ==
    [][\A c \in Calls :
         (NotifiedBeforeWait(c) /\ cpc'[c] # "wait_begin") =>
             /\ cpc'[c] # "waiting"
             /\ ~expired'[c]
             /\ result'[c] # "TimeLimitExceeded"
             /\ Kind(c) = "range" => cpc'[c] = "sync_open"
             /\ Kind(c) = "query" => (cpc'[c] = "done" /\ result'[c] = wres[c])]_vars

\* A range worker and a query worker have both signalled while their
\* callers had not yet begun to wait.
C32_Witness ==
    /\ \E c \in Calls : Kind(c) = "range" /\ NotifiedBeforeWait(c)
    /\ \E c \in Calls : Kind(c) = "query" /\ NotifiedBeforeWait(c) /\ wpc[c] = "exit"

\* A token that is no key of the domain of the choice: no rank-index for
\* quests, no monster name or key, no weapon key.
InvalidItem(choice, tok) ==
    CASE choice = "quest" -> ~IsRankIndex(Chars(tok))
      [] choice = "monster" -> tok \notin MonsterJa \cup MonsterKeys
      [] choice = "weapon" -> tok \notin WeaponKeys

\* C33: an exclude or target call whose argument holds at least one invalid
\* token leaves the Config as it was and does not reach the write of the
\* configuration file: no valid token of the argument is applied.
C33_InvalidTokenAppliesNothing ==
    (/\ pin.op = "mutate"
     /\ pout.phase = 2
     /\ \E i \in 1..Len(pin.toks) : InvalidItem(pin.fields[3].text, pin.toks[i])) =>
        (pout.cfg = pin.cfg /\ ~pout.ok)

\* The members call of c, the only call made so far, has returned the
\* error of a failed upsert.
MembersUpsertFailed(c) ==
    /\ started = 1
    /\ Kind(c) = "members"
    /\ cpc[c] = "done"
    /\ result[c] = "FailedToStore"

\* C34: when a members call returns an error because an upsert failed,
\* Config.members is as before the call: the member set in memory still
\* equals the one the configuration file holds.
C34_FailedUpsertKeepsMembers ==
    \A c \in Calls :
        MembersUpsertFailed(c) =>
            /\ FromStr(file).ok
            /\ config.members = FromStr(file).config.members

\* C35: store is all-or-nothing: when it reports FailedToStore no logs row
\* and no statistics increment of the roll exists; when it succeeds every
\* pair of the roll has one new logs row and one increment; so logs and
\* statistics agree.
C35_StoreAllOrNothing ==
    (pin.op = "store" /\ pout.phase = 2) =>
        /\ pout.err = "FailedToStore" => (pout.list = <<>> /\ pout.msg = <<>>)
        /\ pout.ok => (pout.list = pin.toks /\ pout.msg = pin.toks)
        /\ pout.list = pout.msg

\* C36: for each domain, every token sequence validate_for accepts is
\* parsed by Validated::parse: an argument that passed validation never
\* fails afterwards.
C36_ValidatedAlwaysParses ==
    (pin.op = "smart_cast" /\ pout.phase = 2 /\ pout.err # "InvalidArgument") => pout.ok

\* The QuestID names an entry of the quest table.
InQuestTable(id) == id[1] < QuestRanks /\ id[2] < QuestsLen(id[1])

\* C37: every QuestID a target mutation stores in settings.target.quest
\* names an entry of the quest table, so that settings info about quest
\* never indexes outside the table.
C37_TargetQuestsExist ==
    \A id \in config.target["quest"] : InQuestTable(id)

\* C38: generate never assigns to a member a weapon that is in
\* settings.excluded.weapon at the time of the roll.
C38_NoExcludedWeaponAssigned ==
    (pin.op = "regulations" /\ pout.phase = 2) =>
        \A i \in 1..Len(pout.list) : pout.list[i][2] \notin pin.cfg.excluded["weapon"]

\* C39: for every Range a range mutation can store, generate ends with a
\* roll or an error value, never with a panic while it holds the Config
\* lock; once a generate call has ended the Config mutex is not poisoned,
\* so later settings mutations can still acquire it.
C39_GenerateNeverPanics ==
    \A c \in Calls :
        (Kind(c) = "generate" /\ cpc[c] = "done") =>
            /\ result[c] # "panic"
            /\ ~configPoisoned

====
